---- MODULE Spec2Model ----
(***************************************************************************)
(* Technical SEO audit automation: the HTTP crawl driver                   *)
(* (screaming_frog_api.py), the subprocess crawl driver                    *)
(* (screaming_frog_automation.py), the issue detector and aggregator       *)
(* (seo_audit_automation.py) and the two orchestrators (workflow.py,       *)
(* full_workflow.py), each as a state machine of its own specification.    *)
(***************************************************************************)
EXTENDS Integers, Sequences, FiniteSets, TLC

VARIABLES
    \* ---- ScreamingFrogAPI (screaming_frog_api.py) ----
    api_op,          \* the operation the caller invoked
    apc,             \* position inside that operation
    aret,            \* what the operation returned ("pending" while it runs)
    check_interval,  \* wait_for_crawl_completion's check_interval argument
    timeout,         \* wait_for_crawl_completion's timeout argument
    now,             \* time.time()
    start_time,      \* wait_for_crawl_completion's start_time local
    elapsed_time,    \* wait_for_crawl_completion's elapsed_time local
    crawl_id,        \* run_full_crawl_and_export's crawl_id local
    reqs,            \* requests issued so far, per stage
    nSleep,          \* time.sleep(check_interval) calls so far
    nNonTerminal,    \* polls that reported a status that is not terminal
    lastStatus,      \* crawl_status of the latest poll
    lastPollAt,      \* time since start_time when the latest poll was issued
    latency,         \* how long the server takes to answer a status poll
    tabIdx,          \* export_individual_tabs: tabs already requested
    success,         \* export_individual_tabs's success local
    waitResult,      \* what wait_for_crawl_completion returned ("none" before)
    sawStatusOK,     \* the status endpoint answered 200 with status OK
    pollFailed,      \* the latest poll brought no usable answer (None or {})
    sawHttpFailure,  \* some request ended in a transport error, a timeout
                     \* or a status code other than 200
    export_log,      \* the data of the export requests sent, in order
    firstFailedTab,  \* index of the first export request that brought no
                     \* 200 answer with status OK (0: none so far)
    \* ---- ScreamingFrogAutomation (screaming_frog_automation.py) ----
    sf_op,           \* the entry point the caller invoked
    sf_pc,           \* position inside it
    sf_ret,          \* what it returned ("pending" while it runs)
    sf_args,         \* its arguments: config_file, max_urls, export_tabs and
                     \* whether the url list file exists
    cmd,             \* the command line handed to subprocess.Popen
    returncode,      \* process.returncode (-1 while there is none)
    folder,          \* the files in output_dir
    process,         \* the crawler process and its two pipes: the writes it
                     \* still has to make, the lines waiting in each pipe,
                     \* the stdout lines the driver has logged
    \* ---- SEOAuditAutomation (seo_audit_automation.py) ----
    export_dir,      \* the directory self.export_dir names: whether it can
                     \* be listed, and the content of each file in it
    self_files,      \* self.files: logical table name -> file
    data,            \* self.data: logical table name -> DataFrame
    issues,          \* self.issues: bucket -> list of IssueRecords
    summary,         \* self.summary
    au_pc,           \* position of the audit run
    au_exc,          \* the exception that left run_analysis ("none" if none)
    pending,         \* the checks of the current run_analysis call still to run,
                     \* where the model lets them run in any order
    runs,            \* the number of run_analysis calls that have returned
    \* ---- the orchestrators (workflow.py, full_workflow.py) ----
    wf,              \* "full": EndToEndSEOWorkflow.run_full_workflow,
                     \* "basic": SEOWorkflow.run_workflow
    f_pc,            \* the step the run is about to take
    f_ret,           \* what the run returned ("pending" while it runs,
                     \* "raised" when an exception left it)
    f_exc,           \* the exception that left the run ("none" if none)
    steps,           \* the steps taken so far, in order
    failed_step,     \* the first step that failed ("none" if none)
    send_email,      \* the send_email argument
    email_config,    \* the email_config argument: "None" or "config"
    report_files,    \* report_files of the SEOWorkflow object
    e2e_report_files, \* report_files of the EndToEndSEOWorkflow object
    disk,            \* the report files written: <<directory, kind>>
    sent,            \* mails handed to the SMTP server
    wf_max_urls,     \* the max_urls argument of run_full_workflow
    workbook,        \* the sheets of the spreadsheet written: name -> rows
    email_ret        \* what send_email_report returned ("pending" before)

apiVars == <<api_op, apc, aret, check_interval, timeout, now, start_time,
             elapsed_time, crawl_id, reqs, nSleep, nNonTerminal, lastStatus,
             lastPollAt, latency, tabIdx, success, waitResult, sawStatusOK,
             pollFailed, sawHttpFailure, export_log, firstFailedTab>>

sfVars == <<sf_op, sf_pc, sf_ret, sf_args, cmd, returncode, folder, process>>

auditVars ==
    <<export_dir, self_files, data, issues, summary, au_pc, au_exc, pending,
      runs>>

flowVars == <<wf, f_pc, f_ret, f_exc, steps, failed_step, send_email,
              email_config, report_files, e2e_report_files, disk, sent,
              wf_max_urls, workbook, email_ret>>

vars == <<apiVars, sfVars, auditVars, flowVars>>

\* what the steps of one component leave alone
notAPI == <<sfVars, auditVars, flowVars>>
notSF == <<apiVars, auditVars, flowVars>>
notAudit == <<apiVars, sfVars, flowVars>>

----------------------------------------------------------------------------
(* Bounds of the model *)

\* largest check_interval a direct caller of wait_for_crawl_completion passes
MaxInterval == 2
\* largest timeout a direct caller of wait_for_crawl_completion passes
MaxTimeout == 3
\* longest time the server takes to answer one status poll
MaxLatency == 1

----------------------------------------------------------------------------
(* Python strings *)

\* s.startswith(p), s.endswith(p), p in s
StartsWith(s, p) ==
    \E a \in {s}, b \in {p} : Len(b) <= Len(a) /\ SubSeq(a, 1, Len(b)) = b
EndsWith(s, p) ==
    \E a \in {s}, b \in {p} :
        Len(b) <= Len(a) /\ SubSeq(a, Len(a) - Len(b) + 1, Len(a)) = b
Contains(s, p) ==
    \E a \in {s}, b \in {p} :
        \/ Len(b) = 0
        \/ \E i \in 1..(Len(a) - Len(b) + 1) : SubSeq(a, i, i + Len(b) - 1) = b

UpperCase == "ABCDEFGHIJKLMNOPQRSTUVWXYZ"
LowerCase == "abcdefghijklmnopqrstuvwxyz"

\* every upper case letter with its lower case letter
LowerTable ==
    [c \in {SubSeq(UpperCase, i, i) : i \in 1..Len(UpperCase)} |->
       LET i == CHOOSE j \in 1..Len(UpperCase) : SubSeq(UpperCase, j, j) = c
       IN  SubSeq(LowerCase, i, i)]

\* c.lower() of one character
LowerChar(c) == IF c \in DOMAIN LowerTable THEN LowerTable[c] ELSE c

\* s.lower(), character by character from position i on
RECURSIVE LowerFrom(_, _)
LowerFrom(s, i) ==
    IF i > Len(s) THEN ""
    ELSE CHOOSE r \in {LowerChar(c) \o LowerFrom(s, j) :
                         c \in {SubSeq(s, i, i)}, j \in {i + 1}} : TRUE

Lower(s) == CHOOSE r \in {LowerFrom(a, 1) : a \in {s}} : TRUE

\* s.replace(c, d) for a non-empty c, from position i on
RECURSIVE ReplaceFrom(_, _, _, _)
ReplaceFrom(s, c, d, i) ==
    IF i > Len(s) THEN ""
    ELSE IF i + Len(c) - 1 <= Len(s) /\ SubSeq(s, i, i + Len(c) - 1) = c
         THEN CHOOSE r \in {d \o ReplaceFrom(s, c, d, j) :
                              j \in {i + Len(c)}} : TRUE
         ELSE CHOOSE r \in {SubSeq(s, i, i) \o ReplaceFrom(s, c, d, j) :
                              j \in {i + 1}} : TRUE

Replace(s, c, d) ==
    CHOOSE r \in {ReplaceFrom(a, c, d, 1) : a \in {s}} : TRUE

----------------------------------------------------------------------------
(* the components a specification leaves alone *)

\* no process: nothing to write, both pipes empty
NoProcess ==
    [program |-> <<>>, out_buf |-> 0, err_buf |-> 0, alive |-> FALSE,
     exited |-> FALSE, rc |-> 0, logged |-> 0]

\* no ScreamingFrogAutomation call is made
IdleSF ==
    /\ sf_op = "none"
    /\ sf_pc = "idle"
    /\ sf_ret = "pending"
    /\ sf_args = [config_file |-> "None", max_urls |-> "None",
                  export_tabs |-> "None", url_list_exists |-> FALSE]
    /\ cmd = <<>>
    /\ returncode = -1
    /\ folder = {}
    /\ process = NoProcess

\* no orchestrator is run
IdleFlow ==
    /\ wf = "none"
    /\ f_pc = "idle"
    /\ f_ret = "pending"
    /\ f_exc = "none"
    /\ steps = <<>>
    /\ failed_step = "none"
    /\ send_email = FALSE
    /\ email_config = "None"
    /\ report_files = <<>>
    /\ e2e_report_files = <<>>
    /\ disk = {}
    /\ sent = 0
    /\ wf_max_urls = "None"
    /\ workbook = <<>>
    /\ email_ret = "pending"

\* no audit is run
IdleAudit ==
    /\ export_dir = [listable |-> FALSE, files |-> <<>>]
    /\ self_files = <<>>
    /\ data = <<>>
    /\ issues = [critical |-> <<>>, high |-> <<>>, medium |-> <<>>,
                 low |-> <<>>]
    /\ summary = <<>>
    /\ au_pc = "idle"
    /\ au_exc = "none"
    /\ pending = {}
    /\ runs = 0

\* no ScreamingFrogAPI call is made
IdleAPI ==
    /\ api_op = "none"
    /\ apc = "idle"
    /\ aret = "pending"
    /\ check_interval = 0
    /\ timeout = 0
    /\ now = 0
    /\ start_time = 0
    /\ elapsed_time = 0
    /\ crawl_id = ""
    /\ reqs = [status |-> 0, crawl |-> 0, poll |-> 0, export |-> 0]
    /\ nSleep = 0
    /\ nNonTerminal = 0
    /\ lastStatus = ""
    /\ lastPollAt = 0
    /\ latency = 0
    /\ tabIdx = 0
    /\ success = TRUE
    /\ waitResult = "none"
    /\ sawStatusOK = FALSE
    /\ pollFailed = FALSE
    /\ sawHttpFailure = FALSE
    /\ export_log = <<>>
    /\ firstFailedTab = 0

----------------------------------------------------------------------------
(* ScreamingFrogAPI: values *)

\* wait_for_crawl_completion(self, crawl_id, check_interval=10, timeout=3600)
DefaultCheckInterval == 10
DefaultTimeout == 3600

\* the ten tabs of export_individual_tabs
NumTabs == 10

\* Python's None, as a response and as a return value
NoneResp == [isNone |-> TRUE, keys |-> {}, status |-> "", id |-> ""]

\* a JSON object answered with HTTP 200: the keys it holds and their values
Body(keys, status, id) ==
    [isNone |-> FALSE, keys |-> keys, status |-> status, id |-> id]

\* what the transport can do with one request
HttpOutcomes == {"conn_error", "timeout", "non200", "ok"}

\* GET /status -> {status}
StatusBodies ==
    {Body({"status"}, s, "") : s \in {"OK", "ERROR"}} \cup {Body({}, "", "")}

\* POST /crawl -> {id}
CrawlBodies ==
    {Body({"id"}, "", i) : i \in {"c1", ""}} \cup {Body({"message"}, "", "")}

\* GET /crawl/{id} -> {status, urlsCrawled}
CrawlStatuses ==
    {"FINISHED", "FAILED", "STOPPED", "INTERRUPTED", "STARTED", "PAUSED",
     "finished"}

PollBodies ==
    {Body({"status", "urlsCrawled"}, s, "") : s \in CrawlStatuses}
        \cup {Body({"urlsCrawled"}, "", ""), Body({}, "", "")}

\* POST /export -> {status}
ExportBodies ==
    {Body({"status"}, s, "") : s \in {"OK", "ERROR"}} \cup {Body({}, "", "")}

\* Python truthiness of a response: None and {} are falsy
Truthy(r) == ~r.isNone /\ r.keys # {}

\* response.get("status") / status.get("status", "")
GetStatus(r) == IF "status" \in r.keys THEN r.status ELSE ""

\* a call's result: the value it returns, or the exception that leaves it
Returns(v) == [raised |-> FALSE, val |-> v]
Raises == [raised |-> TRUE, val |-> NoneResp]

----------------------------------------------------------------------------
(* ScreamingFrogAPI: the methods, as functions of what the transport did *)

\* _make_request with the except clause narrowed to connection errors, so that
\* a request timeout leaves the method as an exception
_make_request_timeout_uncaught(method, outcome, body) ==
    IF method \notin {"GET", "POST"} THEN Returns(NoneResp)
    ELSE IF outcome = "conn_error" THEN Returns(NoneResp)
    ELSE IF outcome = "timeout" THEN Raises
    ELSE IF outcome = "ok" THEN Returns(body)
    ELSE Returns(NoneResp)

\* _make_request: the JSON body on HTTP 200, None on any other status code, on
\* an unsupported method and on any RequestException (transport error, timeout)
_make_request(method, outcome, body) ==
    IF method \notin {"GET", "POST"} THEN Returns(NoneResp)
    ELSE IF outcome \in {"conn_error", "timeout"} THEN Returns(NoneResp)
    ELSE IF outcome = "ok" THEN Returns(body)
    ELSE Returns(NoneResp)

\* check_status satisfied with any answer, whatever status it reports
check_status_any_answer(outcome, body) ==
    LET response == _make_request("GET", outcome, body)
    IN  IF response.raised THEN [raised |-> FALSE, val |-> FALSE]
        ELSE [raised |-> FALSE, val |-> ~response.val.isNone]

\* check_status: a bare except turns any exception into False
check_status(outcome, body) ==
    LET response == _make_request("GET", outcome, body)
    IN  IF response.raised THEN [raised |-> FALSE, val |-> FALSE]
        ELSE [raised |-> FALSE,
              val |-> ~response.val.isNone /\ GetStatus(response.val) = "OK"]

\* start_crawl: the crawl id of the response, or None
start_crawl(outcome, body) ==
    LET response == _make_request("POST", outcome, body)
    IN  IF response.raised THEN [raised |-> TRUE, isNone |-> TRUE, id |-> ""]
        ELSE IF Truthy(response.val) /\ "id" \in response.val.keys
             THEN [raised |-> FALSE, isNone |-> FALSE, id |-> response.val.id]
             ELSE [raised |-> FALSE, isNone |-> TRUE, id |-> ""]

\* get_crawl_status: whatever _make_request gives
get_crawl_status(outcome, body) == _make_request("GET", outcome, body)

\* the status dispatch of wait_for_crawl_completion with STOPPED left out of
\* the list of failure statuses
PollVerdict_without_STOPPED(status) ==
    IF status.raised THEN "raised"
    ELSE IF ~Truthy(status.val) THEN "False"
    ELSE IF GetStatus(status.val) = "FINISHED" THEN "True"
    ELSE IF GetStatus(status.val) \in {"FAILED", "INTERRUPTED"} THEN "False"
    ELSE "sleep"

\* the status dispatch of wait_for_crawl_completion comparing the status
\* without regard to case
PollVerdict_any_case(status) ==
    IF status.raised THEN "raised"
    ELSE IF ~Truthy(status.val) THEN "False"
    ELSE IF GetStatus(status.val) \in {"FINISHED", "finished"} THEN "True"
    ELSE IF GetStatus(status.val) \in {"FAILED", "STOPPED", "INTERRUPTED"}
         THEN "False"
    ELSE "sleep"

\* the status dispatch of wait_for_crawl_completion: what one poll's answer
\* makes the loop do
PollVerdict(status) ==
    IF status.raised THEN "raised"
    ELSE IF ~Truthy(status.val) THEN "False"
    ELSE IF GetStatus(status.val) = "FINISHED" THEN "True"
    ELSE IF GetStatus(status.val) \in {"FAILED", "STOPPED", "INTERRUPTED"}
         THEN "False"
    ELSE "sleep"

\* the tabs export_individual_tabs exports, in the order of its list
individual_tabs ==
    <<"Internal:All", "Internal:HTML", "Response Codes", "Page Titles",
      "Meta Description", "H1", "Images", "Redirect Chains", "All Inlinks",
      "Page Speed">>

\* tab.replace(":", "_").replace(" ", "_").lower()
tab_filename(tab) == Lower(Replace(Replace(tab, ":", "_"), " ", "_"))

\* os.path.join(output_dir, f"{tab_filename}.{export_format}") with the
\* default format
file_path(tab) == "output_dir/" \o tab_filename(tab) \o ".csv"

\* the file each tab of the list is exported to
file_paths == [i \in 1..Len(individual_tabs) |-> file_path(individual_tabs[i])]

\* the data of the export request for the i-th tab of the list
ExportData(id, i) ==
    [id |-> id, format |-> "csv", path |-> file_paths[i],
     tabs |-> <<individual_tabs[i]>>]

\* an export request taken for successful on any answer that is not empty
TabExported_any_answer(response) == Truthy(response)

\* one export request of export_individual_tabs: did the tab export
TabExported(response) == Truthy(response) /\ GetStatus(response) = "OK"

\* the statuses that end the wait
FailureStatuses == {"FAILED", "STOPPED", "INTERRUPTED"}
TerminalStatuses == {"FINISHED"} \cup FailureStatuses

\* what the server actually answered, whatever the client makes of it
Answered(o, b) == o = "ok" /\ b.keys # {}
AnsweredStatus(o, b) == IF Answered(o, b) THEN GetStatus(b) ELSE ""

----------------------------------------------------------------------------
(* ScreamingFrogAPI: the caller and the steps *)

ApiOps ==
    {"check_status", "start_crawl", "get_crawl_status",
     "wait_for_crawl_completion", "export_individual_tabs",
     "run_full_crawl_and_export"}

\* where each operation starts
EntryPc(op) ==
    CASE op = "check_status" -> "check_status"
      [] op = "start_crawl" -> "start_crawl"
      [] op = "get_crawl_status" -> "get_crawl_status"
      [] op = "wait_for_crawl_completion" -> "wait_enter"
      [] op = "export_individual_tabs" -> "export"
      [] op = "run_full_crawl_and_export" -> "check_status"

NoRequests == [status |-> 0, crawl |-> 0, poll |-> 0, export |-> 0]

\* the caller invokes one operation; a direct call of wait_for_crawl_completion
\* chooses its check_interval and timeout, every other path uses the defaults;
\* the server answers every status poll of one run after the same latency
InitAPI ==
    /\ api_op \in ApiOps
    /\ apc = EntryPc(api_op)
    /\ aret = "pending"
    /\ \/ /\ api_op = "wait_for_crawl_completion"
          /\ check_interval \in 1..MaxInterval
          /\ timeout \in 0..MaxTimeout
       \/ /\ check_interval = DefaultCheckInterval
          /\ timeout = DefaultTimeout
    /\ now = 0
    /\ start_time = 0
    /\ elapsed_time = 0
    /\ crawl_id = IF api_op \in {"run_full_crawl_and_export", "start_crawl"}
                  THEN "" ELSE "c1"
    /\ reqs = NoRequests
    /\ nSleep = 0
    /\ nNonTerminal = 0
    /\ lastStatus = ""
    /\ lastPollAt = 0
    /\ latency \in IF api_op \in {"wait_for_crawl_completion",
                                  "run_full_crawl_and_export"}
                   THEN 0..MaxLatency ELSE {0}
    /\ tabIdx = 0
    /\ success = TRUE
    /\ waitResult = "none"
    /\ sawStatusOK = FALSE
    /\ pollFailed = FALSE
    /\ sawHttpFailure = FALSE
    /\ export_log = <<>>
    /\ firstFailedTab = 0

Return(v) == apc' = "done" /\ aret' = v

BoolStr(b) == IF b THEN "True" ELSE "False"

\* check_status(), called directly or as the first stage of
\* run_full_crawl_and_export
call_check_status ==
    /\ apc = "check_status"
    /\ UNCHANGED notAPI
    /\ \E o \in HttpOutcomes, b \in StatusBodies :
         LET r == check_status(o, b)
         IN  /\ reqs' = [reqs EXCEPT !.status = @ + 1]
             /\ sawStatusOK' = (Answered(o, b) /\ GetStatus(b) = "OK")
             /\ sawHttpFailure' = (sawHttpFailure \/ o # "ok")
             /\ IF r.raised THEN Return("raised")
                ELSE IF api_op = "check_status" THEN Return(BoolStr(r.val))
                ELSE IF ~r.val THEN Return("False")
                ELSE apc' = "start_crawl" /\ aret' = aret
    /\ UNCHANGED <<api_op, check_interval, timeout, now, start_time,
                   elapsed_time, crawl_id, nSleep, nNonTerminal, lastStatus,
                   lastPollAt, latency, tabIdx, success, waitResult,
                   pollFailed,
                   export_log, firstFailedTab>>

\* start_crawl(url, max_urls), called directly or as the second stage of
\* run_full_crawl_and_export, which gives up on a falsy crawl id
call_start_crawl ==
    /\ apc = "start_crawl"
    /\ UNCHANGED notAPI
    /\ \E o \in HttpOutcomes, b \in CrawlBodies :
         LET r == start_crawl(o, b)
         IN  /\ reqs' = [reqs EXCEPT !.crawl = @ + 1]
             /\ sawHttpFailure' = (sawHttpFailure \/ o # "ok")
             /\ IF r.raised THEN Return("raised") /\ crawl_id' = crawl_id
                ELSE IF api_op = "start_crawl"
                THEN /\ Return(IF r.isNone THEN "None" ELSE "crawl_id")
                     /\ crawl_id' = r.id
                ELSE IF r.isNone \/ r.id = ""
                THEN Return("False") /\ crawl_id' = r.id
                ELSE apc' = "wait_enter" /\ aret' = aret /\ crawl_id' = r.id
    /\ UNCHANGED <<api_op, check_interval, timeout, now, start_time,
                   elapsed_time, nSleep, nNonTerminal, lastStatus,
                   lastPollAt, latency, tabIdx, success, waitResult,
                   sawStatusOK, pollFailed,
                   export_log, firstFailedTab>>

\* get_crawl_status(crawl_id), called directly
call_get_crawl_status ==
    /\ apc = "get_crawl_status"
    /\ UNCHANGED notAPI
    /\ \E o \in HttpOutcomes, b \in PollBodies :
         LET r == get_crawl_status(o, b)
         IN  /\ reqs' = [reqs EXCEPT !.poll = @ + 1]
             /\ sawHttpFailure' = (sawHttpFailure \/ o # "ok")
             /\ Return(IF r.raised THEN "raised"
                       ELSE IF r.val.isNone THEN "None" ELSE "dict")
    /\ UNCHANGED <<api_op, check_interval, timeout, now, start_time,
                   elapsed_time, crawl_id, nSleep, nNonTerminal, lastStatus,
                   lastPollAt, latency, tabIdx, success, waitResult,
                   sawStatusOK, pollFailed,
                   export_log, firstFailedTab>>

\* wait_for_crawl_completion: start_time = time.time()
wait_enter ==
    /\ apc = "wait_enter"
    /\ UNCHANGED notAPI
    /\ start_time' = now
    /\ apc' = "wait_head"
    /\ UNCHANGED <<api_op, aret, check_interval, timeout, now, elapsed_time,
                   crawl_id, reqs, nSleep, nNonTerminal, lastStatus,
                   lastPollAt, latency, tabIdx, success, waitResult,
                   sawStatusOK, pollFailed, sawHttpFailure,
                   export_log, firstFailedTab>>

\* wait_for_crawl_completion returns v; run_full_crawl_and_export goes on to
\* the exports when v is True and returns False otherwise
WaitReturn(v) ==
    /\ waitResult' = v
    /\ IF api_op = "run_full_crawl_and_export" /\ v = "True"
       THEN apc' = "export" /\ aret' = aret
       ELSE Return(v)

\* the head of the while loop with the timeout test left out
wait_head_no_timeout ==
    /\ apc = "wait_head"
    /\ UNCHANGED notAPI
    /\ elapsed_time' = now - start_time
    /\ apc' = "wait_poll"
    /\ UNCHANGED <<api_op, aret, check_interval, timeout, now, start_time,
                   crawl_id, reqs, nSleep, nNonTerminal, lastStatus,
                   lastPollAt, latency, tabIdx, success, waitResult,
                   sawStatusOK, pollFailed, sawHttpFailure,
                   export_log, firstFailedTab>>

\* the head of the while loop: the timeout test
wait_head ==
    /\ apc = "wait_head"
    /\ UNCHANGED notAPI
    /\ elapsed_time' = now - start_time
    /\ IF elapsed_time' > timeout THEN WaitReturn("False")
       ELSE apc' = "wait_poll" /\ UNCHANGED <<aret, waitResult>>
    /\ UNCHANGED <<api_op, check_interval, timeout, now, start_time, crawl_id,
                   reqs, nSleep, nNonTerminal, lastStatus, lastPollAt,
                   latency, tabIdx, success, sawStatusOK, pollFailed,
                   sawHttpFailure,
                   export_log, firstFailedTab>>

\* one status poll and the dispatch on its answer; the answer takes latency
\* to come back
wait_poll ==
    /\ apc = "wait_poll"
    /\ UNCHANGED notAPI
    /\ \E o \in HttpOutcomes, b \in PollBodies :
         LET status == get_crawl_status(o, b)
             verdict == PollVerdict(status)
         IN  /\ reqs' = [reqs EXCEPT !.poll = @ + 1]
             /\ now' = now + latency
             /\ lastPollAt' = now - start_time
             /\ lastStatus' = AnsweredStatus(o, b)
             /\ pollFailed' = ~Answered(o, b)
             /\ sawHttpFailure' = (sawHttpFailure \/ o # "ok")
             /\ nNonTerminal' =
                  IF Answered(o, b) /\ GetStatus(b) \notin TerminalStatuses
                  THEN nNonTerminal + 1 ELSE nNonTerminal
             /\ IF verdict = "sleep"
                THEN apc' = "wait_sleep" /\ UNCHANGED <<aret, waitResult>>
                ELSE WaitReturn(verdict)
    /\ UNCHANGED <<api_op, check_interval, timeout, start_time, elapsed_time,
                   crawl_id, nSleep, latency, tabIdx, success, sawStatusOK,
                   export_log, firstFailedTab>>

\* time.sleep(check_interval), then back to the head of the loop
wait_sleep ==
    /\ apc = "wait_sleep"
    /\ UNCHANGED notAPI
    /\ now' = now + check_interval
    /\ nSleep' = nSleep + 1
    /\ apc' = "wait_head"
    /\ UNCHANGED <<api_op, aret, check_interval, timeout, start_time,
                   elapsed_time, crawl_id, reqs, nNonTerminal, lastStatus,
                   lastPollAt, latency, tabIdx, success, waitResult,
                   sawStatusOK, pollFailed, sawHttpFailure,
                   export_log, firstFailedTab>>

\* export_individual_tabs: the export request of the next tab of the list
export_tab ==
    /\ apc = "export"
    /\ UNCHANGED notAPI
    /\ tabIdx < NumTabs
    /\ \E o \in HttpOutcomes, b \in ExportBodies :
         LET response == _make_request("POST", o, b)
         IN  /\ reqs' = [reqs EXCEPT !.export = @ + 1]
             /\ export_log' = Append(export_log, ExportData(crawl_id, tabIdx + 1))
             /\ sawHttpFailure' = (sawHttpFailure \/ o # "ok")
             /\ firstFailedTab' =
                    IF firstFailedTab = 0
                       /\ ~(o = "ok" /\ b = Body({"status"}, "OK", ""))
                    THEN tabIdx + 1 ELSE firstFailedTab
             /\ IF response.raised
                THEN Return("raised") /\ UNCHANGED <<tabIdx, success>>
                ELSE /\ tabIdx' = tabIdx + 1
                     /\ success' = (success /\ TabExported(response.val))
                     /\ UNCHANGED <<apc, aret>>
    /\ UNCHANGED <<api_op, check_interval, timeout, now, start_time,
                   elapsed_time, crawl_id, nSleep, nNonTerminal, lastStatus,
                   lastPollAt, latency, waitResult, sawStatusOK, pollFailed>>

\* export_individual_tabs: return success, which run_full_crawl_and_export
\* returns as its own result
export_return ==
    /\ apc = "export"
    /\ UNCHANGED notAPI
    /\ tabIdx = NumTabs
    /\ Return(BoolStr(success))
    /\ UNCHANGED <<api_op, check_interval, timeout, now, start_time,
                   elapsed_time, crawl_id, reqs, nSleep, nNonTerminal,
                   lastStatus, lastPollAt, latency, tabIdx, success,
                   waitResult, sawStatusOK, pollFailed, sawHttpFailure,
                   export_log, firstFailedTab>>

NextAPI ==
    \/ call_check_status
    \/ call_start_crawl
    \/ call_get_crawl_status
    \/ wait_enter
    \/ wait_head
    \/ wait_poll
    \/ wait_sleep
    \/ export_tab
    \/ export_return

\* one ScreamingFrogAPI operation, nothing else running
InitSpecAPI == InitAPI /\ IdleSF /\ IdleAudit /\ IdleFlow

SpecAPI == InitSpecAPI /\ [][NextAPI]_vars

\* the single thread of the client always takes its next step
FairSpecAPI == SpecAPI /\ WF_vars(NextAPI)

----------------------------------------------------------------------------
(* ScreamingFrogAPI: properties *)

WaitOps == {"wait_for_crawl_completion", "run_full_crawl_and_export"}

\* the latest poll was answered, and with a status that is not terminal
LastAnswerNonTerminal ==
    reqs.poll > 0 /\ ~pollFailed /\ lastStatus \notin TerminalStatuses

\* C3: run_full_crawl_and_export sends its requests stage by stage: a crawl is
\* started only after the status endpoint answered OK, a status poll is sent
\* only after a crawl id was received, an export request only after a poll was
\* answered FINISHED; when a stage fails the method returns False and no
\* request of a later stage has been sent.
C3_StagesInOrder ==
    api_op = "run_full_crawl_and_export" =>
        /\ reqs.status <= 1 /\ reqs.crawl <= 1
        /\ reqs.crawl > 0 => reqs.status = 1 /\ sawStatusOK
        /\ reqs.poll > 0 => reqs.crawl = 1 /\ crawl_id # ""
        /\ reqs.export > 0 =>
             reqs.poll > 0 /\ ~pollFailed /\ lastStatus = "FINISHED"
        /\ apc = "done" =>
             /\ ~sawStatusOK =>
                  /\ aret = "False"
                  /\ reqs.crawl = 0 /\ reqs.poll = 0 /\ reqs.export = 0
             /\ sawStatusOK /\ crawl_id = "" =>
                  aret = "False" /\ reqs.poll = 0 /\ reqs.export = 0
             /\ crawl_id # "" /\ (pollFailed \/ lastStatus # "FINISHED") =>
                  aret = "False" /\ reqs.export = 0
             /\ ~success => aret = "False"

\* a complete run: one status check, one start, two polls, ten exports
C3_Witness ==
    /\ api_op = "run_full_crawl_and_export"
    /\ apc = "done" /\ aret = "True"
    /\ reqs = [status |-> 1, crawl |-> 1, poll |-> 2, export |-> NumTabs]

\* C4: when k polls are answered with a status that is not terminal and the
\* next one with FINISHED, wait_for_crawl_completion returns True after exactly
\* k + 1 polls and k sleeps (one between consecutive polls, none after the
\* last); a poll answered FINISHED always makes it return True.
C4_PollsUntilFinished ==
    /\ waitResult = "True" =>
         /\ lastStatus = "FINISHED"
         /\ reqs.poll = nNonTerminal + 1
         /\ nSleep = nNonTerminal
    /\ reqs.poll > 0 /\ ~pollFailed /\ lastStatus = "FINISHED" =>
         waitResult = "True"

\* STARTED, STARTED, FINISHED: True after exactly 3 polls and 2 sleeps
C4_Witness ==
    /\ api_op = "wait_for_crawl_completion"
    /\ apc = "done" /\ aret = "True"
    /\ reqs.poll = 3 /\ nNonTerminal = 2 /\ nSleep = 2

\* C5: wait_for_crawl_completion always returns; no poll is issued once the
\* time since start_time exceeds the timeout; when the status never became
\* terminal it returns False, with elapsed_time above the timeout, and it
\* never raises.
C5_WaitTerminates ==
    /\ <>(apc = "done")
    /\ [](api_op \in WaitOps /\ reqs.poll > 0 => lastPollAt <= timeout)
    /\ [](waitResult # "none" /\ LastAnswerNonTerminal =>
            waitResult = "False" /\ elapsed_time > timeout)
    /\ [](waitResult # "raised")

\* a wait that saw only non-terminal statuses and gave up on the timeout
C5_Witness ==
    /\ api_op = "wait_for_crawl_completion"
    /\ apc = "done" /\ aret = "False"
    /\ reqs.poll >= 2 /\ nNonTerminal = reqs.poll
    /\ elapsed_time > timeout

\* C6: wait_for_crawl_completion returns True only on a poll answered
\* FINISHED; a poll answered FAILED, STOPPED or INTERRUPTED makes it return
\* False at once, with no further sleep; after any other status it sleeps
\* check_interval and returns to the head of the loop, where the next poll is
\* issued unless the timeout test ends the wait.
C6_StatusDispatch ==
    /\ waitResult = "True" =>
         reqs.poll > 0 /\ ~pollFailed /\ lastStatus = "FINISHED"
    /\ api_op \in WaitOps /\ reqs.poll > 0 /\ ~pollFailed
         /\ lastStatus \in FailureStatuses =>
         waitResult = "False" /\ nSleep = reqs.poll - 1
    /\ api_op \in WaitOps /\ LastAnswerNonTerminal =>
         \/ apc = "wait_sleep" /\ nSleep = reqs.poll - 1 /\ waitResult = "none"
         \/ apc \in {"wait_head", "wait_poll"}
              /\ nSleep = reqs.poll /\ waitResult = "none"
         \/ waitResult = "False" /\ nSleep = reqs.poll
              /\ elapsed_time > timeout
    /\ api_op \in WaitOps =>
         now - start_time = nSleep * check_interval + reqs.poll * latency

\* the loop is about to poll again after a status that is not terminal
C6_Witness ==
    /\ api_op = "wait_for_crawl_completion"
    /\ apc = "wait_poll"
    /\ reqs.poll = 1 /\ lastStatus = "PAUSED" /\ nSleep = 1

\* the values each operation hands back
ReturnValues(op) ==
    CASE op = "start_crawl" -> {"None", "crawl_id"}
      [] op = "get_crawl_status" -> {"None", "dict"}
      [] OTHER -> {"True", "False"}

\* C7: no operation of ScreamingFrogAPI lets an exception reach its caller,
\* and once a request ended in a transport error, a request timeout or a
\* status code other than 200 the operation returns False or None.
C7_NoExceptionEscapes ==
    /\ aret # "raised"
    /\ waitResult # "raised"
    /\ apc = "done" => aret \in ReturnValues(api_op)
    /\ apc = "done" /\ sawHttpFailure => aret \in {"False", "None"}

\* a full run whose exports all went out although a request had failed
C7_Witness ==
    /\ api_op = "run_full_crawl_and_export"
    /\ apc = "done" /\ aret = "False"
    /\ reqs.export = NumTabs /\ sawHttpFailure

\* the file names the ten tabs are exported under
ExpectedFiles ==
    <<"internal_all", "internal_html", "response_codes", "page_titles",
      "meta_description", "h1", "images", "redirect_chains", "all_inlinks",
      "page_speed">>

\* C29: export_individual_tabs sends one export request per tab of its list
\* of ten, in list order, each naming that tab alone and a file of its own,
\* and goes on to the next tab when a request failed; when it returns, all
\* ten requests have been sent and the result is True exactly when every one
\* of them was answered with status OK.
C29_OneExportPerTab ==
    /\ Len(export_log) = reqs.export
    /\ Len(export_log) <= NumTabs
    /\ \A i \in 1..Len(export_log) :
         /\ export_log[i].tabs = <<individual_tabs[i]>>
         /\ export_log[i].path = "output_dir/" \o ExpectedFiles[i] \o ".csv"
         /\ \A j \in 1..Len(export_log) :
              export_log[i].path = export_log[j].path => i = j
    /\ (apc = "export" /\ firstFailedTab # 0) => Len(export_log) = tabIdx
    /\ (api_op = "export_individual_tabs" /\ apc = "done") =>
          /\ Len(export_log) = NumTabs
          /\ aret \in {"True", "False"}
          /\ aret = "True" <=> firstFailedTab = 0

\* export_individual_tabs has returned False after its first request failed
\* and the nine others went out
C29_Witness ==
    /\ api_op = "export_individual_tabs"
    /\ apc = "done" /\ aret = "False"
    /\ firstFailedTab = 1
    /\ Len(export_log) = NumTabs
    /\ export_log[NumTabs].tabs = <<"Page Speed">>

----------------------------------------------------------------------------
(* ScreamingFrogAutomation: the subprocess crawl driver *)

\* the tabs run_crawl_with_exports exports when export_tabs is None
DefaultExportTabs ==
    <<"Internal:All", "Internal:HTML", "Response Codes", "Page Titles",
      "Meta Description", "H1", "H2", "Images", "CSS", "JavaScript",
      "Directives", "Canonicals", "Pagination", "Hreflang",
      "Structured Data", "Redirect Chains", "All Inlinks", "All Outlinks",
      "Page Speed">>

\* the tabs EndToEndSEOWorkflow.run_crawl asks for
AuditExportTabs ==
    <<"Internal:All", "Internal:HTML", "Response Codes", "Page Titles",
      "Meta Description", "H1", "Images", "Redirect Chains", "All Inlinks",
      "Page Speed">>

\* the export_tabs arguments the callers of the model pass
ExportTabsArgs == {"None", "audit", "response_codes", "empty"}

\* export_tabs after `if export_tabs is None`
ExportTabs(arg) ==
    CASE arg = "None" -> DefaultExportTabs
      [] arg = "audit" -> AuditExportTabs
      [] arg = "response_codes" -> <<"Response Codes">>
      [] arg = "empty" -> <<>>

\* the files the crawler may leave in output_dir
FolderFiles ==
    {"internal_all.csv", "response_codes.csv", "h1.csv", "crawl.seospider"}

\* cmd.extend(['--export-tabs', tab]) for every tab
RECURSIVE ExportTabFlags(_)
ExportTabFlags(tabs) ==
    IF tabs = <<>> THEN <<>>
    ELSE <<"--export-tabs", Head(tabs)>> \o ExportTabFlags(Tail(tabs))

\* `if config_file and os.path.exists(config_file)`
ConfigFlags(config_file) ==
    IF config_file = "exists" THEN <<"--config", "config_file">> ELSE <<>>

\* `if max_urls`: None and 0 add nothing
MaxUrlsFlags(max_urls) ==
    IF max_urls \notin {"None", "0"}
    THEN <<"--bulk-max-urls", max_urls>> ELSE <<>>

\* the command line each entry point builds (crawl_settings left at None)
BuildCmd(op, args) ==
    CASE op = "run_crawl" ->
           <<"sf_path", "--headless", "--crawl", "url", "--output-folder",
             "output_dir">>
               \o ConfigFlags(args.config_file) \o MaxUrlsFlags(args.max_urls)
      [] op = "run_crawl_with_exports" ->
           <<"sf_path", "--headless", "--crawl", "url", "--output-folder",
             "output_dir">>
               \o ConfigFlags(args.config_file)
               \o ExportTabFlags(ExportTabs(args.export_tabs))
      [] op = "run_list_crawl" ->
           <<"sf_path", "--headless", "--list-crawl", "url_list_file",
             "--output-folder", "output_dir">>
               \o ConfigFlags(args.config_file)

\* run_crawl's test: some file of output_dir ends with .csv
AnyCsv(files) == \E f \in files : EndsWith(f, ".csv")

\* run_crawl_with_exports's test: some requested tab has a .csv file whose
\* lower-cased name contains tab.replace(':', '_').lower()
TabFound(tab, files) ==
    \E f \in files :
        Contains(Lower(f), Lower(Replace(tab, ":", "_"))) /\ EndsWith(f, ".csv")

ExportsCreated(tabs, files) ==
    \E i \in 1..Len(tabs) : TabFound(tabs[i], files)

\* what each entry point returns once the process has exited with code rc
\* and left files in output_dir
CrawlResult(op, args, rc, files) ==
    IF rc # 0 THEN FALSE
    ELSE CASE op = "run_crawl" -> AnyCsv(files)
           [] op = "run_crawl_with_exports" ->
                ExportsCreated(ExportTabs(args.export_tabs), files)
           [] op = "run_list_crawl" -> TRUE

SfOps == {"run_crawl", "run_crawl_with_exports", "run_list_crawl"}

\* the caller invokes one entry point; only run_crawl takes max_urls, only
\* run_crawl_with_exports takes export_tabs, only run_list_crawl a url list
InitSF ==
    /\ sf_op \in SfOps
    /\ sf_pc = "start"
    /\ sf_ret = "pending"
    /\ sf_args \in [config_file : {"None", "missing", "exists"},
                    max_urls : IF sf_op = "run_crawl"
                               THEN {"None", "0", "500"} ELSE {"None"},
                    export_tabs : IF sf_op = "run_crawl_with_exports"
                                  THEN ExportTabsArgs ELSE {"None"},
                    url_list_exists : IF sf_op = "run_list_crawl"
                                      THEN BOOLEAN ELSE {FALSE}]
    /\ cmd = <<>>
    /\ returncode = -1
    /\ folder = {}
    /\ process = NoProcess

\* run_list_crawl gives up when the url list file does not exist
sf_no_url_list ==
    /\ sf_pc = "start"
    /\ UNCHANGED notSF
    /\ sf_op = "run_list_crawl" /\ ~sf_args.url_list_exists
    /\ sf_pc' = "done"
    /\ sf_ret' = "False"
    /\ UNCHANGED <<sf_op, sf_args, cmd, returncode, folder, process>>

\* the command is built and subprocess.Popen starts the crawler, or raises
\* (the executable is missing), which the except clause turns into False
sf_popen ==
    /\ sf_pc = "start"
    /\ UNCHANGED notSF
    /\ sf_op = "run_list_crawl" => sf_args.url_list_exists
    /\ cmd' = BuildCmd(sf_op, sf_args)
    /\ \E started \in BOOLEAN :
         IF started THEN sf_pc' = "running" /\ sf_ret' = sf_ret
         ELSE sf_pc' = "done" /\ sf_ret' = "False"
    /\ UNCHANGED <<sf_op, sf_args, returncode, folder, process>>

\* the crawler runs, its output is logged line by line, and process.wait()
\* collects its exit code; it leaves some files in output_dir
sf_process_exit ==
    /\ sf_pc = "running"
    /\ UNCHANGED notSF
    /\ \E rc \in {0, 1}, files \in SUBSET FolderFiles :
         /\ returncode' = rc
         /\ folder' = files
    /\ sf_pc' = "check"
    /\ UNCHANGED <<sf_op, sf_ret, sf_args, cmd, process>>

\* the return code test and the test for exports
sf_check ==
    /\ sf_pc = "check"
    /\ UNCHANGED notSF
    /\ sf_pc' = "done"
    /\ sf_ret' = BoolStr(CrawlResult(sf_op, sf_args, returncode, folder))
    \* after an exit code other than 0 the lines left in stderr are logged
    /\ process' = IF returncode # 0 THEN [process EXCEPT !.err_buf = 0]
                  ELSE process
    /\ UNCHANGED <<sf_op, sf_args, cmd, returncode, folder>>

NextSF ==
    \/ sf_no_url_list
    \/ sf_popen
    \/ sf_process_exit
    \/ sf_check

\* one ScreamingFrogAutomation entry point, nothing else running
InitSpecSF == InitSF /\ IdleAPI /\ IdleAudit /\ IdleFlow

SpecSF == InitSpecSF /\ [][NextSF]_vars

\* C8: every subprocess entry point returns False when the crawler exits with
\* a code other than 0, returns False when it exits with 0 and output_dir
\* holds no export file, and returns True only after exit code 0 with at least
\* one export file in output_dir.
C8_ExitCodeAndExports ==
    sf_pc = "done" /\ returncode # -1 =>
        /\ returncode # 0 => sf_ret = "False"
        /\ returncode = 0 /\ ~AnyCsv(folder) => sf_ret = "False"
        /\ sf_ret = "True" => returncode = 0 /\ AnyCsv(folder)

----------------------------------------------------------------------------
(* The subprocess driver and the crawler process, pipe by pipe *)

\* the lines a pipe holds before a write to it blocks
PipeCapacity == 2

\* the writes a crawler process makes before it exits
MaxWrites == 3

\* the crawler processes: each makes a finite sequence of writes, a line to
\* stdout or a line to stderr at a time, then exits with some code; a write
\* waits while its pipe is full, nothing else holds the process up
Programs == UNION {[1..n -> {"out", "err"}] : n \in 0..MaxWrites}

\* the caller invokes one entry point; the process that Popen will start is
\* any of Programs
InitPipe ==
    /\ sf_op \in SfOps
    /\ sf_pc = "start"
    /\ sf_ret = "pending"
    /\ sf_args = [config_file |-> "None", max_urls |-> "None",
                  export_tabs |-> "None", url_list_exists |-> TRUE]
    /\ cmd = <<>>
    /\ returncode = -1
    /\ folder = {}
    /\ \E prog \in Programs, rc \in {0, 1} :
         process = [NoProcess EXCEPT !.program = prog, !.rc = rc]

\* subprocess.Popen(cmd, stdout=PIPE, stderr=PIPE): the process starts with
\* two empty pipes, or Popen raises and the except clause returns False
pipe_popen ==
    /\ sf_pc = "start"
    /\ UNCHANGED notSF
    /\ cmd' = BuildCmd(sf_op, sf_args)
    /\ \E started \in BOOLEAN :
         IF started
         THEN /\ sf_pc' = "read_stdout"
              /\ sf_ret' = sf_ret
              /\ process' = [process EXCEPT !.alive = TRUE]
         ELSE /\ sf_pc' = "done"
              /\ sf_ret' = "False"
              /\ process' = process
    /\ UNCHANGED <<sf_op, sf_args, returncode, folder>>

\* the process makes its next write, when the pipe it goes to has room
process_write ==
    /\ process.alive /\ process.program # <<>>
    /\ UNCHANGED notSF
    /\ IF Head(process.program) = "out"
       THEN /\ process.out_buf < PipeCapacity
            /\ process' = [process EXCEPT !.program = Tail(@),
                                          !.out_buf = @ + 1]
       ELSE /\ process.err_buf < PipeCapacity
            /\ process' = [process EXCEPT !.program = Tail(@),
                                          !.err_buf = @ + 1]
    /\ UNCHANGED <<sf_op, sf_pc, sf_ret, sf_args, cmd, returncode, folder>>

\* the process has made all its writes: it exits, which closes its ends of
\* both pipes, and leaves some files in output_dir
process_exit ==
    /\ process.alive /\ process.program = <<>>
    /\ UNCHANGED notSF
    /\ process' = [process EXCEPT !.alive = FALSE, !.exited = TRUE]
    /\ \E files \in {{}, {"internal_all.csv"}} : folder' = files
    /\ UNCHANGED <<sf_op, sf_pc, sf_ret, sf_args, cmd, returncode>>

\* for line in process.stdout: the driver takes a line from the stdout pipe
\* and logs it
read_stdout_line ==
    /\ sf_pc = "read_stdout"
    /\ UNCHANGED notSF
    /\ process.out_buf > 0
    /\ process' = [process EXCEPT !.out_buf = @ - 1, !.logged = @ + 1]
    /\ UNCHANGED <<sf_op, sf_pc, sf_ret, sf_args, cmd, returncode, folder>>

\* the loop over process.stdout ends at end of file: the pipe is empty and
\* the process has closed it
read_stdout_eof ==
    /\ sf_pc = "read_stdout"
    /\ UNCHANGED notSF
    /\ process.out_buf = 0 /\ process.exited
    /\ sf_pc' = "wait"
    /\ UNCHANGED <<sf_op, sf_ret, sf_args, cmd, returncode, folder, process>>

\* process.wait() returns once the process has exited, with its exit code
process_wait ==
    /\ sf_pc = "wait"
    /\ UNCHANGED notSF
    /\ process.exited
    /\ returncode' = process.rc
    /\ sf_pc' = "check"
    /\ UNCHANGED <<sf_op, sf_ret, sf_args, cmd, folder, process>>

NextPipe ==
    \/ pipe_popen
    \/ process_write
    \/ process_exit
    \/ read_stdout_line
    \/ read_stdout_eof
    \/ process_wait
    \/ sf_check

InitSpecPipe == InitPipe /\ IdleAPI /\ IdleAudit /\ IdleFlow

SpecPipe == InitSpecPipe /\ [][NextPipe]_vars

\* the operating system lets the driver and the process run whenever one of
\* them can take a step
FairSpecPipe == SpecPipe /\ WF_vars(NextPipe)

\* C25: the driver reads what the process writes while it waits for it, so
\* with any process that exits once its output has been read, the entry
\* point comes to its return and never stays blocked facing a process that
\* waits on a full pipe.
C25_DriverReturns == <>(sf_pc = "done")

----------------------------------------------------------------------------
(* SEOAuditAutomation (seo_audit_automation.py): tables *)

\* a cell of a DataFrame: NaN (a missing value) or a value
NaN == [na |-> TRUE]
Cell(v) == [na |-> FALSE, v |-> v]
isna(c) == c.na

\* a DataFrame: its columns and its rows in file order, each row a function
\* from column name to cell
DataFrame(columns, rows) == [columns |-> columns, rows |-> rows]

\* df[col] as the sequence of its cells
Column(df, col) == [i \in 1..Len(df.rows) |-> df.rows[i][col]]

\* df[mask], mask a sequence of booleans, one per row: the rows whose mask
\* is True, in their order
Where(df, mask) ==
    LET kept == {i \in 1..Len(df.rows) : mask[i]}
    IN  DataFrame(df.columns,
                  [k \in 1..Cardinality(kept) |->
                     df.rows[CHOOSE i \in kept :
                               Cardinality({j \in kept : j <= i}) = k]])

\* df.dropna(subset=[col])
dropna(df, col) == Where(df, [i \in 1..Len(df.rows) |-> ~isna(df.rows[i][col])])

\* series.between as it would be with both ends excluded
between_exclusive(c, lo, hi) == ~isna(c) /\ lo < c.v /\ c.v < hi

\* series.between(lo, hi): both ends included, False on NaN
between(c, lo, hi) == ~isna(c) /\ lo <= c.v /\ c.v <= hi

\* series > bound: False on NaN
greater(c, bound) == ~isna(c) /\ c.v > bound

\* seq[-n:], the last n elements, in the place of seq.head(n)
head_from_the_end(seq, n) ==
    SubSeq(seq, IF Len(seq) < n THEN 1 ELSE Len(seq) - n + 1, Len(seq))

\* seq.head(n), seq[:n]
head(seq, n) == SubSeq(seq, 1, IF Len(seq) < n THEN Len(seq) ELSE n)

\* the dtype pandas gives a column that holds text: object when the file has
\* no row or some cell holds text, float64 when every cell is empty; the
\* .str accessor raises AttributeError on a float64 column
StrAccessorRaises(df, col) ==
    /\ df.rows # <<>>
    /\ \A i \in 1..Len(df.rows) : isna(df.rows[i][col])

\* a > b for two fractions with positive denominators
FractionGt(a, b) == a.num * b.den > b.num * a.den

\* a whole number as a fraction
Whole(n) == [num |-> n, den |-> 1]

\* sorted(seq, key=..., reverse=True), keys[i] the key of seq[i] as a
\* fraction: a stable sort, so elements with equal keys keep their order
SortedReverse(seq, keys) ==
    LET n == Len(seq)
        pos(i) ==
            1 + Cardinality({j \in 1..n : FractionGt(keys[j], keys[i])})
              + Cardinality({j \in 1..(i - 1) :
                                ~FractionGt(keys[j], keys[i])
                                /\ ~FractionGt(keys[i], keys[j])})
    IN  [k \in 1..n |-> seq[CHOOSE i \in 1..n : pos(i) = k]]

\* the distinct elements of seq in order of first appearance
RECURSIVE Unique(_)
Unique(seq) ==
    IF seq = <<>> THEN <<>>
    ELSE LET rest == Unique(SubSeq(seq, 1, Len(seq) - 1))
             last == seq[Len(seq)]
         IN  IF \E i \in 1..Len(rest) : rest[i] = last
             THEN rest ELSE Append(rest, last)

\* series.value_counts(): each distinct value with the number of rows that
\* hold it, most frequent first, equally frequent values in order of first
\* appearance
value_counts(cells) ==
    LET values == Unique([i \in 1..Len(cells) |-> cells[i].v])
        counted == [i \in 1..Len(values) |->
                      [value |-> values[i],
                       count |-> Cardinality({j \in 1..Len(cells) :
                                                cells[j].v = values[i]})]]
    IN  SortedReverse(counted,
                      [i \in 1..Len(counted) |-> Whole(counted[i].count)])

----------------------------------------------------------------------------
(* SEOAuditAutomation: the issue catalog and the IssueRecords *)

ISSUE_SCORES ==
    [broken_links |-> [impact |-> 10, effort |-> 5, category |-> "critical"],
     server_errors |-> [impact |-> 10, effort |-> 6, category |-> "critical"],
     redirect_chains |-> [impact |-> 9, effort |-> 4, category |-> "critical"],
     duplicate_titles |-> [impact |-> 8, effort |-> 3, category |-> "critical"],
     missing_meta_descriptions |->
         [impact |-> 7, effort |-> 2, category |-> "high"],
     missing_h1 |-> [impact |-> 7, effort |-> 2, category |-> "high"],
     duplicate_content |-> [impact |-> 8, effort |-> 6, category |-> "high"],
     slow_pages |-> [impact |-> 7, effort |-> 7, category |-> "high"],
     title_too_long |-> [impact |-> 5, effort |-> 2, category |-> "medium"],
     description_too_long |->
         [impact |-> 5, effort |-> 2, category |-> "medium"],
     low_word_count |-> [impact |-> 6, effort |-> 5, category |-> "medium"],
     missing_alt_text |-> [impact |-> 5, effort |-> 4, category |-> "medium"],
     multiple_h1 |-> [impact |-> 3, effort |-> 2, category |-> "low"],
     missing_meta_keywords |->
         [impact |-> 2, effort |-> 1, category |-> "low"],
     excessive_outlinks |-> [impact |-> 3, effort |-> 4, category |-> "low"],
     low_text_html_ratio |->
         [impact |-> 3, effort |-> 5, category |-> "low"]]

\* the buckets of self.issues in the order the dict holds them
Categories == <<"critical", "high", "medium", "low">>

\* self.issues after __init__
NoIssues == [critical |-> <<>>, high |-> <<>>, medium |-> <<>>, low |-> <<>>]

\* the issue dict as it would be with priority_score = effort / impact
Issue_inverted_score(type, title, count, examples) ==
    [type |-> type,
     title |-> title,
     count |-> count,
     examples |-> examples,
     impact |-> ISSUE_SCORES[type].impact,
     effort |-> ISSUE_SCORES[type].effort,
     priority_score |-> [num |-> ISSUE_SCORES[type].effort,
                         den |-> ISSUE_SCORES[type].impact]]

\* the issue dict a check builds; priority_score is impact / effort, kept as
\* the exact fraction (the description and recommendation texts, fixed per
\* type, are left out)
Issue(type, title, count, examples) ==
    [type |-> type,
     title |-> title,
     count |-> count,
     examples |-> examples,
     impact |-> ISSUE_SCORES[type].impact,
     effort |-> ISSUE_SCORES[type].effort,
     priority_score |-> [num |-> ISSUE_SCORES[type].impact,
                         den |-> ISSUE_SCORES[type].effort]]

\* how a check ends: it returns, or an exception leaves it
Completed(iss) == [exc |-> "none", issues |-> iss]
Raised(exc, iss) == [exc |-> exc, issues |-> iss]

\* the block shared by the checks as it would be without its test
\* "if not matches.empty"
Report_even_when_empty(iss, bucket, type, title, matches) ==
    IF "Address" \notin matches.columns THEN Raised("KeyError", iss)
    ELSE Completed(
           [iss EXCEPT ![bucket] =
              Append(@, Issue(type, title, Len(matches.rows),
                              head([i \in 1..Len(matches.rows) |->
                                      matches.rows[i]["Address"].v], 5)))])

\* the block shared by the checks as it would be if a check added its
\* record only to a bucket that no other check has added to
Report_into_empty_bucket_only(iss, bucket, type, title, matches) ==
    IF matches.rows = <<>> THEN Completed(iss)
    ELSE IF "Address" \notin matches.columns THEN Raised("KeyError", iss)
    ELSE IF iss[bucket] # <<>> THEN Completed(iss)
    ELSE Completed(
           [iss EXCEPT ![bucket] =
              Append(@, Issue(type, title, Len(matches.rows),
                              head([i \in 1..Len(matches.rows) |->
                                      matches.rows[i]["Address"].v], 5)))])

\* the block "if not matches.empty: issue = {...}; self.issues[bucket]
\* .append(issue)" shared by the checks: matches["Address"] raises KeyError
\* when the table has no Address column
Report(iss, bucket, type, title, matches) ==
    IF matches.rows = <<>> THEN Completed(iss)
    ELSE IF "Address" \notin matches.columns THEN Raised("KeyError", iss)
    ELSE Completed(
           [iss EXCEPT ![bucket] =
              Append(@, Issue(type, title, Len(matches.rows),
                              head([i \in 1..Len(matches.rows) |->
                                      matches.rows[i]["Address"].v], 5)))])

----------------------------------------------------------------------------
(* SEOAuditAutomation: the detector checks, each from the loaded tables d   *)
(* and the buckets iss to the buckets it leaves, or to the exception that   *)
(* leaves it                                                                *)

\* analyze_slow_pages's threshold of 3.0 seconds, in milliseconds (load
\* times are kept in whole milliseconds)
threshold == 3000
\* analyze_title_length's max_length
title_max_length == 60
\* analyze_description_length's max_length
description_max_length == 160

analyze_broken_links(d, iss) ==
    IF "response_codes" \notin DOMAIN d THEN Completed(iss)
    ELSE LET df == d["response_codes"] IN
         IF "Status Code" \notin df.columns THEN Raised("KeyError", iss)
         ELSE LET client_errors ==
                      Where(df, [i \in 1..Len(df.rows) |->
                                  between(df.rows[i]["Status Code"],
                                          400, 499)])
                  server_errors ==
                      Where(df, [i \in 1..Len(df.rows) |->
                                  between(df.rows[i]["Status Code"],
                                          500, 599)])
                  first == Report(iss, "critical", "broken_links",
                                  "Broken Links (4xx)", client_errors)
              IN  IF first.exc # "none" THEN first
                  ELSE Report(first.issues, "critical", "server_errors",
                              "Server Errors (5xx)", server_errors)

\* the variant of analyze_redirect_chains that reads self.data
\* ["redirect_chains"] without testing that the table was loaded
analyze_redirect_chains_unguarded(d, iss) ==
    IF "redirect_chains" \notin DOMAIN d THEN Raised("KeyError", iss)
    ELSE LET df == d["redirect_chains"] IN
         IF "Redirect Chain" \notin df.columns THEN Completed(iss)
         ELSE Report(iss, "critical", "redirect_chains", "Redirect Chains",
                     Where(df, [i \in 1..Len(df.rows) |->
                                  greater(df.rows[i]["Redirect Chain"], 1)]))

analyze_redirect_chains(d, iss) ==
    IF "redirect_chains" \notin DOMAIN d THEN Completed(iss)
    ELSE LET df == d["redirect_chains"] IN
         IF "Redirect Chain" \notin df.columns THEN Completed(iss)
         ELSE Report(iss, "critical", "redirect_chains", "Redirect Chains",
                     Where(df, [i \in 1..Len(df.rows) |->
                                  greater(df.rows[i]["Redirect Chain"], 1)]))

\* the examples of duplicate titles as they would be with one address per
\* title
RECURSIVE DuplicateExamples_one_per_title(_, _)
DuplicateExamples_one_per_title(df, titles) ==
    IF titles = <<>> THEN <<>>
    ELSE LET rows == Where(df, [i \in 1..Len(df.rows) |->
                                    df.rows[i]["Title 1"].v = Head(titles)]).rows
             urls == head([i \in 1..Len(rows) |-> rows[i]["Address"].v], 1)
         IN  urls \o DuplicateExamples_one_per_title(df, Tail(titles))

\* examples.extend(urls) over the titles: for each title the addresses of the
\* first two rows that carry it
RECURSIVE DuplicateExamples(_, _)
DuplicateExamples(df, titles) ==
    IF titles = <<>> THEN <<>>
    ELSE LET rows == Where(df, [i \in 1..Len(df.rows) |->
                                    df.rows[i]["Title 1"].v = Head(titles)]).rows
             urls == head([i \in 1..Len(rows) |-> rows[i]["Address"].v], 2)
         IN  urls \o DuplicateExamples(df, Tail(titles))

\* analyze_duplicate_titles as it would be if it counted the pages that
\* carry a duplicated title instead of the duplicated titles
analyze_duplicate_titles_counting_pages(d, iss) ==
    IF "page_titles" \notin DOMAIN d THEN Completed(iss)
    ELSE IF "Title 1" \notin d["page_titles"].columns
         THEN Raised("KeyError", iss)
    ELSE LET df == dropna(d["page_titles"], "Title 1")
             title_counts == value_counts(Column(df, "Title 1"))
             repeated == SelectSeq(title_counts, LAMBDA t : t.count > 1)
             duplicate_titles ==
                 [i \in 1..Len(repeated) |-> repeated[i].value]
             pages == {j \in 1..Len(df.rows) :
                         \E i \in 1..Len(duplicate_titles) :
                             df.rows[j]["Title 1"].v = duplicate_titles[i]}
         IN  IF duplicate_titles = <<>> THEN Completed(iss)
             ELSE IF "Address" \notin df.columns THEN Raised("KeyError", iss)
             ELSE Completed(
                    [iss EXCEPT !["critical"] =
                       Append(@, Issue("duplicate_titles",
                                       "Duplicate Page Titles",
                                       Cardinality(pages),
                                       head(DuplicateExamples(
                                              df, head(duplicate_titles, 5)),
                                            5)))])

analyze_duplicate_titles(d, iss) ==
    IF "page_titles" \notin DOMAIN d THEN Completed(iss)
    ELSE IF "Title 1" \notin d["page_titles"].columns
         THEN Raised("KeyError", iss)
    ELSE LET df == dropna(d["page_titles"], "Title 1")
             title_counts == value_counts(Column(df, "Title 1"))
             repeated == SelectSeq(title_counts, LAMBDA t : t.count > 1)
             duplicate_titles ==
                 [i \in 1..Len(repeated) |-> repeated[i].value]
         IN  IF duplicate_titles = <<>> THEN Completed(iss)
             ELSE IF "Address" \notin df.columns THEN Raised("KeyError", iss)
             ELSE Completed(
                    [iss EXCEPT !["critical"] =
                       Append(@, Issue("duplicate_titles",
                                       "Duplicate Page Titles",
                                       Len(duplicate_titles),
                                       head(DuplicateExamples(
                                              df, head(duplicate_titles, 5)),
                                            5)))])

analyze_missing_meta_descriptions(d, iss) ==
    IF "meta_description" \notin DOMAIN d THEN Completed(iss)
    ELSE LET df == d["meta_description"] IN
         IF "Meta Description 1" \notin df.columns
         THEN Raised("KeyError", iss)
         ELSE Report(iss, "high", "missing_meta_descriptions",
                     "Missing Meta Descriptions",
                     Where(df, [i \in 1..Len(df.rows) |->
                                  isna(df.rows[i]["Meta Description 1"])]))

analyze_missing_h1(d, iss) ==
    IF "h1" \notin DOMAIN d THEN Completed(iss)
    ELSE LET df == d["h1"] IN
         IF "H1-1" \notin df.columns THEN Raised("KeyError", iss)
         ELSE Report(iss, "high", "missing_h1", "Missing H1 Tags",
                     Where(df, [i \in 1..Len(df.rows) |->
                                  isna(df.rows[i]["H1-1"])]))

\* analyze_slow_pages as it would be if it appended its record to the medium
\* bucket
analyze_slow_pages_in_medium(d, iss) ==
    IF "page_speed" \notin DOMAIN d THEN Completed(iss)
    ELSE LET df == d["page_speed"] IN
         IF "Page Load Time (Seconds)" \notin df.columns THEN Completed(iss)
         ELSE Report(iss, "medium", "slow_pages", "Slow-Loading Pages",
                     Where(df, [i \in 1..Len(df.rows) |->
                                  greater(df.rows[i]
                                            ["Page Load Time (Seconds)"],
                                          threshold)]))

analyze_slow_pages(d, iss) ==
    IF "page_speed" \notin DOMAIN d THEN Completed(iss)
    ELSE LET df == d["page_speed"] IN
         IF "Page Load Time (Seconds)" \notin df.columns THEN Completed(iss)
         ELSE Report(iss, "high", "slow_pages", "Slow-Loading Pages",
                     Where(df, [i \in 1..Len(df.rows) |->
                                  greater(df.rows[i]
                                            ["Page Load Time (Seconds)"],
                                          threshold)]))

analyze_title_length(d, iss) ==
    IF "page_titles" \notin DOMAIN d THEN Completed(iss)
    ELSE IF "Title 1" \notin d["page_titles"].columns
         THEN Raised("KeyError", iss)
    ELSE IF StrAccessorRaises(d["page_titles"], "Title 1")
         THEN Raised("AttributeError", iss)
    ELSE LET df == dropna(d["page_titles"], "Title 1") IN
         Report(iss, "medium", "title_too_long", "Page Titles Too Long",
                Where(df, [i \in 1..Len(df.rows) |->
                             Len(df.rows[i]["Title 1"].v)
                                 > title_max_length]))

analyze_description_length(d, iss) ==
    IF "meta_description" \notin DOMAIN d THEN Completed(iss)
    ELSE IF "Meta Description 1" \notin d["meta_description"].columns
         THEN Raised("KeyError", iss)
    ELSE IF StrAccessorRaises(d["meta_description"], "Meta Description 1")
         THEN Raised("AttributeError", iss)
    ELSE LET df == dropna(d["meta_description"], "Meta Description 1") IN
         Report(iss, "medium", "description_too_long",
                "Meta Descriptions Too Long",
                Where(df, [i \in 1..Len(df.rows) |->
                             Len(df.rows[i]["Meta Description 1"].v)
                                 > description_max_length]))

analyze_missing_alt_text(d, iss) ==
    IF "images" \notin DOMAIN d THEN Completed(iss)
    ELSE LET df == d["images"] IN
         IF "Alt Text" \notin df.columns THEN Raised("KeyError", iss)
         ELSE Report(iss, "medium", "missing_alt_text",
                     "Images Missing Alt Text",
                     Where(df, [i \in 1..Len(df.rows) |->
                                  isna(df.rows[i]["Alt Text"])]))

analyze_multiple_h1(d, iss) ==
    IF "h1" \notin DOMAIN d THEN Completed(iss)
    ELSE LET df == d["h1"] IN
         IF "H1-2" \notin df.columns THEN Completed(iss)
         ELSE Report(iss, "low", "multiple_h1", "Multiple H1 Tags",
                     dropna(df, "H1-2"))

\* the checks in the order run_analysis calls them, and the table each reads
Checks ==
    <<"analyze_broken_links", "analyze_redirect_chains",
      "analyze_duplicate_titles", "analyze_missing_meta_descriptions",
      "analyze_missing_h1", "analyze_slow_pages", "analyze_title_length",
      "analyze_description_length", "analyze_missing_alt_text",
      "analyze_multiple_h1">>

CheckTable ==
    [analyze_broken_links |-> "response_codes",
     analyze_redirect_chains |-> "redirect_chains",
     analyze_duplicate_titles |-> "page_titles",
     analyze_missing_meta_descriptions |-> "meta_description",
     analyze_missing_h1 |-> "h1",
     analyze_slow_pages |-> "page_speed",
     analyze_title_length |-> "page_titles",
     analyze_description_length |-> "meta_description",
     analyze_missing_alt_text |-> "images",
     analyze_multiple_h1 |-> "h1"]

\* the column each check reads without testing that the table has it
CheckColumn ==
    [analyze_broken_links |-> "Status Code",
     analyze_duplicate_titles |-> "Title 1",
     analyze_missing_meta_descriptions |-> "Meta Description 1",
     analyze_missing_h1 |-> "H1-1",
     analyze_title_length |-> "Title 1",
     analyze_description_length |-> "Meta Description 1",
     analyze_missing_alt_text |-> "Alt Text"]

RunCheck(name, d, iss) ==
    CASE name = "analyze_broken_links" -> analyze_broken_links(d, iss)
      [] name = "analyze_redirect_chains" -> analyze_redirect_chains(d, iss)
      [] name = "analyze_duplicate_titles" -> analyze_duplicate_titles(d, iss)
      [] name = "analyze_missing_meta_descriptions" ->
             analyze_missing_meta_descriptions(d, iss)
      [] name = "analyze_missing_h1" -> analyze_missing_h1(d, iss)
      [] name = "analyze_slow_pages" -> analyze_slow_pages(d, iss)
      [] name = "analyze_title_length" -> analyze_title_length(d, iss)
      [] name = "analyze_description_length" ->
             analyze_description_length(d, iss)
      [] name = "analyze_missing_alt_text" -> analyze_missing_alt_text(d, iss)
      [] name = "analyze_multiple_h1" -> analyze_multiple_h1(d, iss)

\* the sort of run_analysis as it would be if it sorted lowest first and
\* reversed the result: records with equal scores change places
SortIssues_ascending_then_reversed(iss) ==
    [c \in DOMAIN iss |->
       LET ascending ==
               SortedReverse(iss[c],
                             [i \in 1..Len(iss[c]) |->
                                [num |-> 0 - iss[c][i].priority_score.num,
                                 den |-> iss[c][i].priority_score.den]])
       IN  [k \in 1..Len(ascending) |->
              ascending[Len(ascending) + 1 - k]]]

\* the sort at the end of run_analysis: every bucket by priority_score,
\* highest first
SortIssues(iss) ==
    [c \in DOMAIN iss |->
       SortedReverse(iss[c],
                     [i \in 1..Len(iss[c]) |-> iss[c][i].priority_score])]

\* _get_highest_impact_issues as it would be if it sorted by priority_score
_get_highest_priority_issues(iss, n) ==
    LET all_issues == iss.critical \o iss.high \o iss.medium \o iss.low
    IN  head(SortedReverse(all_issues,
                           [i \in 1..Len(all_issues) |->
                              all_issues[i].priority_score]), n)

_get_highest_impact_issues(iss, n) ==
    LET all_issues == iss.critical \o iss.high \o iss.medium \o iss.low
    IN  head(SortedReverse(all_issues,
                           [i \in 1..Len(all_issues) |->
                              Whole(all_issues[i].impact)]), n)

\* self.summary as it would be if total_issues counted the issue types found
\* instead of the records
Summary_total_of_types(iss) ==
    [total_issues |->
         Cardinality({t \in DOMAIN ISSUE_SCORES :
                        \E c \in DOMAIN iss :
                            \E i \in 1..Len(iss[c]) : iss[c][i].type = t}),
     critical_count |-> Len(iss.critical),
     high_count |-> Len(iss.high),
     medium_count |-> Len(iss.medium),
     low_count |-> Len(iss.low),
     date |-> "today",
     highest_impact_issues |-> _get_highest_impact_issues(iss, 3)]

\* self.summary as run_analysis computes it (the date is the day of the run)
Summary(iss) ==
    [total_issues |-> Len(iss.critical) + Len(iss.high) + Len(iss.medium)
                          + Len(iss.low),
     critical_count |-> Len(iss.critical),
     high_count |-> Len(iss.high),
     medium_count |-> Len(iss.medium),
     low_count |-> Len(iss.low),
     date |-> "today",
     highest_impact_issues |-> _get_highest_impact_issues(iss, 3)]

\* run_analysis as one call: the checks in order from check number i on, the
\* first exception leaving the run before the sort and the summary
RECURSIVE RunChecksFrom(_, _, _)
RunChecksFrom(i, d, iss) ==
    IF i > Len(Checks) THEN Completed(iss)
    ELSE LET r == RunCheck(Checks[i], d, iss)
         IN  IF r.exc # "none" THEN r ELSE RunChecksFrom(i + 1, d, r.issues)

run_analysis(d, iss, old_summary) ==
    LET r == RunChecksFrom(1, d, iss)
    IN  IF r.exc # "none"
        THEN [exc |-> r.exc, issues |-> r.issues, summary |-> old_summary]
        ELSE [exc |-> "none", issues |-> SortIssues(r.issues),
              summary |-> Summary(SortIssues(r.issues))]

----------------------------------------------------------------------------
(* SEOAuditAutomation: load_files *)

expected_files ==
    <<"internal_all.csv", "internal_html.csv", "response_codes.csv",
      "page_titles.csv", "meta_description.csv", "h1.csv", "images.csv",
      "redirect_chains.csv", "all_inlinks.csv", "page_speed.csv">>

\* the inner loop over expected_files from position i on: the key of the
\* first expected name found in filename, "" when there is none
RECURSIVE FirstExpected(_, _)
FirstExpected(filename, i) ==
    IF i > Len(expected_files) THEN ""
    ELSE IF Contains(Lower(filename), Lower(expected_files[i]))
         THEN Replace(expected_files[i], ".csv", "")
         ELSE FirstExpected(filename, i + 1)

\* the key of self.files a file of the directory is filed under
FileKey(filename) ==
    IF EndsWith(filename, ".csv") THEN FirstExpected(filename, 1) ELSE ""

\* what a file holds: a table that pandas.read_csv parses, or bytes that it
\* parses under neither encoding
Parsed(df) == [parses |-> TRUE, df |-> df]
Unparseable == [parses |-> FALSE]

\* load_files as it would be if a file that parses under neither encoding
\* made it return False
LoadOutcomes_parse_error_fatal(dir) ==
    IF ~dir.listable
    THEN {[ok |-> FALSE, files |-> <<>>, data |-> <<>>]}
    ELSE UNION {
           LET names == DOMAIN dir.files
               keys == {key[f] : f \in names} \ {""}
               filings == {p \in [keys -> names] :
                             \A k \in keys : key[p[k]] = k}
           IN  {[ok |-> \A k \in keys : dir.files[p[k]].parses,
                 files |-> p,
                 data |-> [k \in {x \in keys : dir.files[p[x]].parses} |->
                             dir.files[p[k]].df]] : p \in filings} :
           key \in {[f \in DOMAIN dir.files |-> FileKey(f)]}}

\* the ways load_files can end on a directory: False when it cannot be
\* listed; otherwise every key is filed with one of the files that match it
\* (the one os.listdir yields last, in an order the file system chooses) and
\* the tables are those of the filed files that parse
LoadOutcomes(dir) ==
    IF ~dir.listable
    THEN {[ok |-> FALSE, files |-> <<>>, data |-> <<>>]}
    ELSE UNION {
           LET names == DOMAIN dir.files
               keys == {key[f] : f \in names} \ {""}
               filings == {p \in [keys -> names] :
                             \A k \in keys : key[p[k]] = k}
           IN  {[ok |-> TRUE,
                 files |-> p,
                 data |-> [k \in {x \in keys : dir.files[p[x]].parses} |->
                             dir.files[p[k]].df]] : p \in filings} :
           key \in {[f \in DOMAIN dir.files |-> FileKey(f)]}}

----------------------------------------------------------------------------
(* SEOAuditAutomation: the export directories of the model *)

\* at most this many files in the export directory
MaxFiles == 3

Addr == <<"/p1", "/p2", "/p3", "/p4", "/p5", "/p6", "/p7">>

\* a table of an Address column and one more column with the given cells
Table(col, cells) ==
    DataFrame({"Address", col},
              [i \in 1..Len(cells) |->
                 ("Address" :> Cell(Addr[i])) @@ (col :> cells[i])])

\* a table of n rows that has an Address column only
OnlyAddress(n) ==
    DataFrame({"Address"}, [i \in 1..n |-> ("Address" :> Cell(Addr[i]))])

Chars10 == "0123456789"
Chars60 == Chars10 \o Chars10 \o Chars10 \o Chars10 \o Chars10 \o Chars10
Chars160 == Chars60 \o Chars60 \o Chars10 \o Chars10 \o Chars10 \o Chars10

\* the contents each file of the directory is drawn from
SampleFiles(name) ==
    CASE name = "response_codes.csv" ->
           <<Parsed(Table("Status Code", <<Cell(200), Cell(404), Cell(500),
                                           Cell(301), Cell(404)>>)),
             Parsed(Table("Status Code", <<Cell(200), Cell(301)>>)),
             Parsed(OnlyAddress(1)),
             Unparseable>>
      [] name = "redirect_chains.csv" ->
           <<Parsed(Table("Redirect Chain", <<Cell(1), Cell(2), Cell(3)>>)),
             Parsed(OnlyAddress(1))>>
      [] name = "page_titles.csv" ->
           <<Parsed(Table("Title 1", <<Cell("Home"), Cell("Home"),
                                       Cell("About"), NaN,
                                       Cell(Chars60 \o "x"),
                                       Cell(Chars60)>>)),
             Parsed(Table("Title 1", <<Cell("Home"), Cell("About")>>)),
             Parsed(OnlyAddress(1))>>
      [] name = "meta_description.csv" ->
           <<Parsed(Table("Meta Description 1",
                          <<NaN, Cell("short"), Cell(Chars160 \o "x"),
                            Cell(Chars160)>>)),
             Parsed(Table("Meta Description 1", <<Cell("short")>>)),
             Parsed(Table("Meta Description 1", <<NaN, NaN>>)),
             Parsed(OnlyAddress(1))>>
      [] name = "h1.csv" ->
           <<Parsed(DataFrame({"Address", "H1-1", "H1-2"},
                 <<("Address" :> Cell("/p1")) @@ ("H1-1" :> NaN)
                       @@ ("H1-2" :> NaN),
                   ("Address" :> Cell("/p2")) @@ ("H1-1" :> Cell("Welcome"))
                       @@ ("H1-2" :> Cell("Second")),
                   ("Address" :> Cell("/p3")) @@ ("H1-1" :> Cell("Welcome"))
                       @@ ("H1-2" :> NaN)>>)),
             Parsed(Table("H1-1", <<Cell("Welcome")>>)),
             Parsed(OnlyAddress(1))>>
      [] name = "page_speed.csv" ->
           <<Parsed(Table("Page Load Time (Seconds)",
                          <<Cell(2500), Cell(3000), Cell(3100)>>)),
             Parsed(OnlyAddress(1))>>
      [] name = "images.csv" ->
           <<Parsed(Table("Alt Text", <<NaN, NaN, Cell("logo"), NaN, NaN,
                                        NaN, NaN>>)),
             Parsed(Table("Alt Text", <<Cell("logo")>>)),
             Parsed(OnlyAddress(1))>>
      [] name = "internal_all.csv" -> <<Parsed(OnlyAddress(2))>>

FileNames ==
    {"response_codes.csv", "redirect_chains.csv", "page_titles.csv",
     "meta_description.csv", "h1.csv", "page_speed.csv", "images.csv",
     "internal_all.csv"}

\* the directories of at most MaxFiles files, and a directory that cannot
\* be listed
ExportDirs ==
    {[listable |-> FALSE, files |-> <<>>]} \cup
    UNION {
      {[listable |-> TRUE, files |-> [n \in S |-> SampleFiles(n)[pick[n]]]] :
         pick \in {p \in [S -> 1..4] :
                     \A n \in S : p[n] <= Len(SampleFiles(n))}} :
      S \in {T \in SUBSET FileNames : Cardinality(T) <= MaxFiles}}

----------------------------------------------------------------------------
(* SEOAuditAutomation: one audit run, as the command line entry runs it *)

InitAudit ==
    /\ export_dir \in ExportDirs
    /\ self_files = <<>>
    /\ data = <<>>
    /\ issues = NoIssues
    /\ summary = <<>>
    /\ au_pc = "load_files"
    /\ au_exc = "none"
    /\ pending = {}
    /\ runs = 0

\* audit.load_files(); the caller exits when it returns False
load_files ==
    /\ au_pc = "load_files"
    /\ UNCHANGED notAudit
    /\ \E o \in LoadOutcomes(export_dir) :
         /\ self_files' = o.files
         /\ data' = o.data
         /\ au_pc' = IF o.ok THEN Checks[1] ELSE "exit"
    /\ UNCHANGED <<export_dir, issues, summary, au_exc, pending, runs>>

\* check number i of run_analysis; an exception it raises leaves
\* run_analysis
CheckStep(i) ==
    /\ au_pc = Checks[i]
    /\ UNCHANGED notAudit
    /\ LET r == RunCheck(Checks[i], data, issues)
       IN  /\ issues' = r.issues
           /\ au_exc' = r.exc
           /\ au_pc' = IF r.exc # "none" THEN "raised"
                       ELSE IF i < Len(Checks) THEN Checks[i + 1]
                       ELSE "sort"
    /\ UNCHANGED <<export_dir, self_files, data, summary, pending, runs>>

call_analyze_broken_links == CheckStep(1)
call_analyze_redirect_chains == CheckStep(2)
call_analyze_duplicate_titles == CheckStep(3)
call_analyze_missing_meta_descriptions == CheckStep(4)
call_analyze_missing_h1 == CheckStep(5)
call_analyze_slow_pages == CheckStep(6)
call_analyze_title_length == CheckStep(7)
call_analyze_description_length == CheckStep(8)
call_analyze_missing_alt_text == CheckStep(9)
call_analyze_multiple_h1 == CheckStep(10)

\* run_analysis sorts every bucket
sort_issues ==
    /\ au_pc = "sort"
    /\ UNCHANGED notAudit
    /\ issues' = SortIssues(issues)
    /\ au_pc' = "summary"
    /\ UNCHANGED <<export_dir, self_files, data, summary, au_exc, pending,
                   runs>>

\* run_analysis computes the summary and returns
calculate_summary ==
    /\ au_pc = "summary"
    /\ UNCHANGED notAudit
    /\ summary' = Summary(issues)
    /\ au_pc' = "done"
    /\ runs' = runs + 1
    /\ UNCHANGED <<export_dir, self_files, data, issues, au_exc, pending>>

NextAudit ==
    \/ load_files
    \/ call_analyze_broken_links
    \/ call_analyze_redirect_chains
    \/ call_analyze_duplicate_titles
    \/ call_analyze_missing_meta_descriptions
    \/ call_analyze_missing_h1
    \/ call_analyze_slow_pages
    \/ call_analyze_title_length
    \/ call_analyze_description_length
    \/ call_analyze_missing_alt_text
    \/ call_analyze_multiple_h1
    \/ sort_issues
    \/ calculate_summary

\* one audit run, nothing else running
InitSpecAudit == InitAudit /\ IdleAPI /\ IdleSF /\ IdleFlow

SpecAudit == InitSpecAudit /\ [][NextAudit]_vars

\* C9: whenever a detector check runs while the table it reads is not among
\* the loaded tables, it leaves every bucket as it was, adding no
\* IssueRecord, and raises no error.
C9_AbsentTableAddsNothing ==
    [][\A i \in 1..Len(Checks) :
         au_pc = Checks[i] /\ CheckTable[Checks[i]] \notin DOMAIN data =>
             /\ issues' = issues
             /\ au_exc' = "none"
             /\ au_pc' # "raised"]_vars

\* the redirect chain check has run without its table, on buckets that
\* already held a record
C9_Witness ==
    /\ au_pc = "analyze_duplicate_titles"
    /\ "redirect_chains" \notin DOMAIN data
    /\ issues.critical # <<>>
    /\ au_exc = "none"

\* some loaded table lacks the column that a check reads from it
Malformed(d) ==
    \E c \in DOMAIN CheckColumn :
        /\ CheckTable[c] \in DOMAIN d
        /\ CheckColumn[c] \notin d[CheckTable[c]].columns

\* C10: a loaded table that lacks the column a check reads is never fatal:
\* no exception leaves run_analysis.
C10_MalformedTableNotFatal ==
    Malformed(data) => au_exc = "none" /\ au_pc # "raised"

\* the IssueRecords of all buckets, critical first
AllIssues(iss) == iss.critical \o iss.high \o iss.medium \o iss.low

\* the records of a sequence, as a set
Records(seq) == {seq[i] : i \in 1..Len(seq)}

\* the types of the records of a sequence
Types(records) == {records[i].type : i \in 1..Len(records)}

\* C13: every IssueRecord held in any bucket has a count of at least 1: a
\* check that matches no row adds no record.
C13_CountAtLeastOne ==
    \A i \in 1..Len(AllIssues(issues)) : AllIssues(issues)[i].count >= 1

\* the run is over, the response codes table was loaded with its Status
\* Code column and no row in 400..499, no broken_links record was added, and
\* another check added a record
C13_Witness ==
    /\ au_pc = "done"
    /\ "response_codes" \in DOMAIN data
    /\ "Status Code" \in data["response_codes"].columns
    /\ data["response_codes"].rows # <<>>
    /\ "broken_links" \notin Types(AllIssues(issues))
    /\ AllIssues(issues) # <<>>

\* C14: every IssueRecord is held in one bucket only, the bucket is the
\* category the catalog gives its type, and its impact and effort are the
\* catalog's values for its type.
C14_BucketAndScoresFromCatalog ==
    \A c \in DOMAIN issues :
        \A i \in 1..Len(issues[c]) :
            LET r == issues[c][i] IN
            /\ r.type \in DOMAIN ISSUE_SCORES
            /\ ISSUE_SCORES[r.type].category = c
            /\ r.impact = ISSUE_SCORES[r.type].impact
            /\ r.effort = ISSUE_SCORES[r.type].effort
            /\ \A c2 \in DOMAIN issues \ {c} :
                 \A j \in 1..Len(issues[c2]) : issues[c2][j] # r

\* the run is over and every bucket holds a record
C14_Witness ==
    /\ au_pc = "done"
    /\ \A c \in DOMAIN issues : issues[c] # <<>>

\* the record types in the order run_analysis's checks append them
RunOrder ==
    <<"broken_links", "server_errors", "redirect_chains", "duplicate_titles",
      "missing_meta_descriptions", "missing_h1", "slow_pages",
      "title_too_long", "description_too_long", "missing_alt_text",
      "multiple_h1">>

\* the place of a record type in RunOrder
RunIndex(type) == CHOOSE k \in 1..Len(RunOrder) : RunOrder[k] = type

\* two fractions are equal
FractionEq(a, b) == ~FractionGt(a, b) /\ ~FractionGt(b, a)

\* C15: once run_analysis has sorted, every bucket is ordered by
\* priority_score from highest to lowest, and records with equal scores
\* stand in the order their checks ran.
C15_BucketsSortedStable ==
    au_pc \in {"summary", "done"} =>
        \A c \in DOMAIN issues :
            \A i, j \in 1..Len(issues[c]) :
                i < j =>
                    \/ FractionGt(issues[c][i].priority_score,
                                  issues[c][j].priority_score)
                    \/ /\ FractionEq(issues[c][i].priority_score,
                                     issues[c][j].priority_score)
                       /\ RunIndex(issues[c][i].type)
                              < RunIndex(issues[c][j].type)

\* the run is over and the high bucket holds the two records of equal
\* score, missing meta descriptions before missing H1, and after them the
\* record of a lower score
C15_Witness ==
    /\ au_pc = "done"
    /\ Len(issues.high) = 3
    /\ issues.high[1].type = "missing_meta_descriptions"
    /\ issues.high[2].type = "missing_h1"
    /\ issues.high[3].type = "slow_pages"

\* the place of a record in a sequence that holds it
Position(records, r) == CHOOSE k \in 1..Len(records) : records[k] = r

\* C16: when run_analysis is over, summary.highest_impact_issues holds
\* min(3, total) records of the buckets, ordered by impact from highest to
\* lowest, records of equal impact in bucket-major order (critical, high,
\* medium, low; inside a bucket in its sorted order), and no record left
\* out comes before one that is in.
C16_HighestImpactIssues ==
    au_pc = "done" =>
        LET all == AllIssues(issues)
            top == summary.highest_impact_issues
            Before(r, k) ==
                \/ r.impact > all[k].impact
                \/ r.impact = all[k].impact /\ Position(all, r) < k
        IN  /\ Len(top) = IF Len(all) < 3 THEN Len(all) ELSE 3
            /\ \A i \in 1..Len(top) : \E k \in 1..Len(all) : all[k] = top[i]
            /\ \A i, j \in 1..Len(top) :
                 i < j => Before(top[i], Position(all, top[j]))
            /\ \A k \in 1..Len(all) :
                 (\A i \in 1..Len(top) : top[i] # all[k]) =>
                     \A i \in 1..Len(top) : Before(top[i], k)

\* the run is over with more than three records, and the second and third
\* of the highest impact issues have the same impact, below the first's
C16_Witness ==
    /\ au_pc = "done"
    /\ summary.total_issues > 3
    /\ summary.highest_impact_issues[1].impact
           > summary.highest_impact_issues[2].impact
    /\ summary.highest_impact_issues[2].impact
           = summary.highest_impact_issues[3].impact

\* C17: every IssueRecord's priority_score is the impact divided by the
\* effort of the catalog entry of its own type, and every catalog entry has
\* impact and effort in 1..10.
C17_PriorityScoreIsImpactByEffort ==
    /\ \A t \in DOMAIN ISSUE_SCORES :
         /\ ISSUE_SCORES[t].impact \in 1..10
         /\ ISSUE_SCORES[t].effort \in 1..10
    /\ \A i \in 1..Len(AllIssues(issues)) :
         LET r == AllIssues(issues)[i] IN
         /\ r.priority_score.den > 0
         /\ r.priority_score.num * ISSUE_SCORES[r.type].effort
                = ISSUE_SCORES[r.type].impact * r.priority_score.den

\* a check has added a record whose impact and effort differ
C17_Witness ==
    \E i \in 1..Len(AllIssues(issues)) :
        AllIssues(issues)[i].impact # AllIssues(issues)[i].effort

----------------------------------------------------------------------------
(* SEOAuditAutomation: load_files on directories of arbitrary file names *)

\* at most this many files in a directory of LoadDirs
MaxLoadFiles == 2

\* file names that match an expected name, match it in other letter case,
\* match it with a prefix, carry another extension, or match none
LoadNames ==
    {"response_codes.csv", "old_response_codes.csv", "Response_Codes.CSV",
     "response_codes.txt", "H1.csv", "internal_all.csv", "notes.csv",
     "page titles.csv", "crawl.seospider"}

\* what a file of LoadDirs holds
LoadContents == {Parsed(OnlyAddress(1)), Parsed(OnlyAddress(2)), Unparseable}

\* the directories of at most MaxLoadFiles files, and a directory that
\* cannot be listed
LoadDirs ==
    {[listable |-> FALSE, files |-> <<>>]} \cup
    UNION {{[listable |-> TRUE, files |-> c] : c \in [S -> LoadContents]} :
           S \in {T \in SUBSET LoadNames : Cardinality(T) <= MaxLoadFiles}}

InitLoad ==
    /\ export_dir \in LoadDirs
    /\ self_files = <<>>
    /\ data = <<>>
    /\ issues = NoIssues
    /\ summary = <<>>
    /\ au_pc = "load_files"
    /\ au_exc = "none"
    /\ pending = {}
    /\ runs = 0

\* one audit run on a directory of LoadDirs, nothing else running
InitSpecLoad == InitLoad /\ IdleAPI /\ IdleSF /\ IdleFlow

SpecLoad == InitSpecLoad /\ [][NextAudit]_vars

\* load_files has returned, and returned True: the caller went on to
\* run_analysis
LoadReturnedTrue == au_pc \notin {"load_files", "exit", "idle"}

\* C11: load_files returns True exactly when listing the directory did not
\* raise, however many tables were found or parsed; a filed file that parses
\* under neither encoding leaves its logical name out of the loaded tables,
\* and every other filed file is loaded under its name.
C11_LoadReturnsTrueAndSkipsUnparseable ==
    au_pc \notin {"load_files", "idle"} =>
        /\ LoadReturnedTrue <=> export_dir.listable
        /\ DOMAIN data \subseteq DOMAIN self_files
        /\ \A k \in DOMAIN self_files :
             IF export_dir.files[self_files[k]].parses
             THEN k \in DOMAIN data
                  /\ data[k] = export_dir.files[self_files[k]].df
             ELSE k \notin DOMAIN data

\* load_files returned True on a directory where one matched file parses
\* under neither encoding and another matched file was loaded
C11_Witness ==
    /\ LoadReturnedTrue
    /\ \E k \in DOMAIN self_files :
         /\ ~export_dir.files[self_files[k]].parses
         /\ k \notin DOMAIN data
    /\ DOMAIN data # {}

\* the logical export names: the expected names without their extension
LogicalNames ==
    [i \in 1..Len(expected_files) |-> Replace(expected_files[i], ".csv", "")]

\* C12: after load_files returned True, every file of the directory whose
\* name contains a logical export name, compared case-insensitively, is the
\* file loaded under that name, and a file whose name contains none is not
\* loaded.
C12_EveryMatchingFileLoaded ==
    LoadReturnedTrue =>
        \A f \in DOMAIN export_dir.files :
            LET ks == {i \in 1..Len(LogicalNames) :
                         Contains(Lower(f), Lower(LogicalNames[i]))}
            IN  IF ks # {}
                THEN \E i \in ks :
                       /\ LogicalNames[i] \in DOMAIN self_files
                       /\ self_files[LogicalNames[i]] = f
                ELSE \A k \in DOMAIN self_files : self_files[k] # f

----------------------------------------------------------------------------
(* SEOAuditAutomation: the checks on every small table *)

\* at most this many rows in a table of response codes, redirect chains,
\* load times or H1 headings
MaxRows == 3
\* at most this many rows in a table of page titles
MaxTitleRows == 4
\* at most this many rows in a table of meta descriptions or images
MaxExampleRows == 6

\* the sequences of at most n elements of S
SeqsUpTo(S, n) == UNION {[1..k -> S] : k \in 0..n}

\* the status codes around the ends of the two ranges the check tests, and
\* an empty cell
StatusCells ==
    {NaN, Cell(200), Cell(399), Cell(400), Cell(499), Cell(500), Cell(599),
     Cell(600)}

\* a table of response codes with five rows, two of them 404 and one 500
FiveStatusRows ==
    Table("Status Code",
          <<Cell(200), Cell(404), Cell(500), Cell(301), Cell(404)>>)

\* a table of page titles with six rows, three titles carried by two rows
\* each
SixTitleRows ==
    Table("Title 1",
          <<Cell("Home"), Cell("About"), Cell("Home"), Cell("Contact"),
            Cell("About"), Cell("Contact")>>)

\* the tables a check is run on, under the logical name they are loaded as
CheckTables ==
    [response_codes |->
         {Table("Status Code", cells) :
            cells \in SeqsUpTo(StatusCells, MaxRows)}
         \cup {FiveStatusRows},
     redirect_chains |->
         {Table("Redirect Chain", cells) :
            cells \in SeqsUpTo({NaN, Cell(1), Cell(2)}, MaxRows)},
     page_titles |->
         {Table("Title 1", cells) :
            cells \in SeqsUpTo({NaN, Cell("Home"), Cell("About"),
                                Cell(Chars60 \o "x")}, MaxTitleRows)}
         \cup {SixTitleRows},
     meta_description |->
         {Table("Meta Description 1", cells) :
            cells \in SeqsUpTo({NaN, Cell("short"), Cell(Chars160 \o "x")},
                               MaxExampleRows)},
     h1 |->
         {DataFrame({"Address", "H1-1", "H1-2"},
                    [i \in 1..Len(cells) |->
                       ("Address" :> Cell(Addr[i]))
                         @@ ("H1-1" :> cells[i][1])
                         @@ ("H1-2" :> cells[i][2])]) :
            cells \in SeqsUpTo({NaN, Cell("Welcome")}
                                 \X {NaN, Cell("Second")}, MaxRows)},
     page_speed |->
         {Table("Page Load Time (Seconds)", cells) :
            cells \in SeqsUpTo({NaN, Cell(threshold), Cell(threshold + 1)},
                               MaxRows)},
     images |->
         {Table("Alt Text", cells) :
            cells \in SeqsUpTo({NaN, Cell("logo")}, MaxExampleRows)}]

\* an audit whose load_files has loaded one table of CheckTables from the
\* file of its expected name; run_analysis is about to start
InitChecks ==
    /\ \E name \in DOMAIN CheckTables :
         \E df \in CheckTables[name] :
            /\ export_dir = [listable |-> TRUE,
                             files |-> (name \o ".csv") :> Parsed(df)]
            /\ self_files = name :> (name \o ".csv")
            /\ data = name :> df
    /\ issues = NoIssues
    /\ summary = <<>>
    /\ au_pc = Checks[1]
    /\ au_exc = "none"
    /\ pending = {}
    /\ runs = 0

\* run_analysis, step by step
NextChecks ==
    \/ call_analyze_broken_links
    \/ call_analyze_redirect_chains
    \/ call_analyze_duplicate_titles
    \/ call_analyze_missing_meta_descriptions
    \/ call_analyze_missing_h1
    \/ call_analyze_slow_pages
    \/ call_analyze_title_length
    \/ call_analyze_description_length
    \/ call_analyze_missing_alt_text
    \/ call_analyze_multiple_h1
    \/ sort_issues
    \/ calculate_summary

\* run_analysis on one loaded table, nothing else running
InitSpecChecks == InitChecks /\ IdleAPI /\ IdleSF /\ IdleFlow

SpecChecks == InitSpecChecks /\ [][NextChecks]_vars

\* check number i of run_analysis has returned
Ran(i) ==
    au_pc \in {Checks[j] : j \in (i + 1)..Len(Checks)}
                \cup {"sort", "summary", "done"}

\* the places in the buckets of the records of a type
RecordsOf(type) ==
    {i \in 1..Len(AllIssues(issues)) : AllIssues(issues)[i].type = type}

\* the number of rows of the loaded response codes table whose status code
\* lies in lo..hi
StatusRows(lo, hi) ==
    Cardinality({i \in 1..Len(data["response_codes"].rows) :
                   LET c == data["response_codes"].rows[i]["Status Code"]
                   IN  ~c.na /\ c.v \in lo..hi})

\* C18: once analyze_broken_links has run on a response codes table (one
\* with an Address and a Status Code column), the buckets hold one
\* broken_links record if some row has a status code in 400..499 and none
\* otherwise, one server_errors record if some row has a status code in
\* 500..599 and none otherwise, and each record's count is the number of
\* such rows.
C18_BrokenLinksAndServerErrors ==
    (Ran(1) /\ "response_codes" \in DOMAIN data) =>
        /\ Cardinality(RecordsOf("broken_links"))
               = IF StatusRows(400, 499) > 0 THEN 1 ELSE 0
        /\ \A i \in RecordsOf("broken_links") :
               AllIssues(issues)[i].count = StatusRows(400, 499)
        /\ Cardinality(RecordsOf("server_errors"))
               = IF StatusRows(500, 599) > 0 THEN 1 ELSE 0
        /\ \A i \in RecordsOf("server_errors") :
               AllIssues(issues)[i].count = StatusRows(500, 599)

\* analyze_broken_links has run on the status codes 200, 404, 500, 301, 404:
\* one broken_links record of count 2 and one server_errors record of
\* count 1
C18_Witness ==
    /\ Ran(1)
    /\ "response_codes" \in DOMAIN data
    /\ data["response_codes"] = FiveStatusRows
    /\ Len(issues.critical) = 2
    /\ issues.critical[1].type = "broken_links"
    /\ issues.critical[1].count = 2
    /\ issues.critical[2].type = "server_errors"
    /\ issues.critical[2].count = 1

\* the titles that at least two rows of the loaded page titles table carry,
\* rows with an empty title left aside
DuplicatedTitles ==
    LET rows == data["page_titles"].rows
        titled == {i \in 1..Len(rows) : ~rows[i]["Title 1"].na}
    IN  {t \in {rows[i]["Title 1"].v : i \in titled} :
           Cardinality({i \in titled : rows[i]["Title 1"].v = t}) >= 2}

\* C19: once analyze_duplicate_titles has run on a page titles table, the
\* buckets hold one duplicate_titles record if some title is carried by at
\* least two rows with a non-empty title and none otherwise, and the
\* record's count is the number of distinct such titles.
C19_DuplicateTitles ==
    (Ran(3) /\ "page_titles" \in DOMAIN data) =>
        /\ Cardinality(RecordsOf("duplicate_titles"))
               = IF DuplicatedTitles # {} THEN 1 ELSE 0
        /\ \A i \in RecordsOf("duplicate_titles") :
               AllIssues(issues)[i].count = Cardinality(DuplicatedTitles)

\* analyze_duplicate_titles has run on the titles Home, Home, About: one
\* record of count 1
C19_Witness ==
    /\ Ran(3)
    /\ "page_titles" \in DOMAIN data
    /\ data["page_titles"]
           = Table("Title 1", <<Cell("Home"), Cell("Home"), Cell("About")>>)
    /\ Len(issues.critical) = 1
    /\ issues.critical[1].type = "duplicate_titles"
    /\ issues.critical[1].count = 1

\* the table whose rows a record of each type reports (duplicate_titles
\* aside, which reports titles)
TypeTable ==
    [broken_links |-> "response_codes",
     server_errors |-> "response_codes",
     redirect_chains |-> "redirect_chains",
     missing_meta_descriptions |-> "meta_description",
     missing_h1 |-> "h1",
     slow_pages |-> "page_speed",
     title_too_long |-> "page_titles",
     description_too_long |-> "meta_description",
     missing_alt_text |-> "images",
     multiple_h1 |-> "h1"]

\* the row is one that a record of the type reports
RowMatches(type, row) ==
    CASE type = "broken_links" ->
           ~row["Status Code"].na /\ row["Status Code"].v \in 400..499
      [] type = "server_errors" ->
           ~row["Status Code"].na /\ row["Status Code"].v \in 500..599
      [] type = "redirect_chains" ->
           ~row["Redirect Chain"].na /\ row["Redirect Chain"].v > 1
      [] type = "missing_meta_descriptions" -> row["Meta Description 1"].na
      [] type = "missing_h1" -> row["H1-1"].na
      [] type = "slow_pages" ->
           /\ ~row["Page Load Time (Seconds)"].na
           /\ row["Page Load Time (Seconds)"].v > threshold
      [] type = "title_too_long" ->
           ~row["Title 1"].na /\ Len(row["Title 1"].v) > title_max_length
      [] type = "description_too_long" ->
           /\ ~row["Meta Description 1"].na
           /\ Len(row["Meta Description 1"].v) > description_max_length
      [] type = "missing_alt_text" -> row["Alt Text"].na
      [] type = "multiple_h1" -> ~row["H1-2"].na

\* the addresses of the rows of the loaded table that a record of the type
\* reports, in row order
MatchingAddresses(type) ==
    LET rows == SelectSeq(data[TypeTable[type]].rows,
                          LAMBDA row : RowMatches(type, row))
    IN  [k \in 1..Len(rows) |-> rows[k]["Address"].v]

\* C20: for every IssueRecord of a type other than duplicate_titles, count
\* is the number of matching rows and examples are the Address values of
\* the first min(5, count) matching rows, in row order; examples has
\* between 1 and 5 entries.
C20_ExamplesAreFirstFiveAddresses ==
    \A i \in 1..Len(AllIssues(issues)) :
        LET r == AllIssues(issues)[i] IN
        r.type # "duplicate_titles" =>
            /\ r.count = Len(MatchingAddresses(r.type))
            /\ Len(r.examples) \in 1..5
            /\ r.examples
                   = SubSeq(MatchingAddresses(r.type), 1,
                            IF r.count < 5 THEN r.count ELSE 5)

\* a check has reported six matching rows: the record holds the addresses
\* of the first five
C20_Witness ==
    \E i \in 1..Len(AllIssues(issues)) :
        /\ AllIssues(issues)[i].type = "missing_meta_descriptions"
        /\ AllIssues(issues)[i].count = 6
        /\ AllIssues(issues)[i].examples
               = <<"/p1", "/p2", "/p3", "/p4", "/p5">>

\* the addresses of the rows of the loaded page titles table that carry the
\* title, in row order
AddressesOf(title) ==
    LET rows == SelectSeq(data["page_titles"].rows,
                          LAMBDA row : ~row["Title 1"].na
                                       /\ row["Title 1"].v = title)
    IN  [k \in 1..Len(rows) |-> rows[k]["Address"].v]

\* the orders value_counts may list the duplicated titles in: the more rows
\* carry a title, the earlier it comes
DuplicateOrders ==
    {p \in [1..Cardinality(DuplicatedTitles) -> DuplicatedTitles] :
       /\ \A i, j \in DOMAIN p : i # j => p[i] # p[j]
       /\ \A i, j \in DOMAIN p :
            i < j => Len(AddressesOf(p[i])) >= Len(AddressesOf(p[j]))}

\* C27: the examples of the duplicate_titles record are the first two
\* addresses of each duplicated title, the titles in the order value_counts
\* lists them, cut to five: never more than five entries, each the address
\* of a row with a duplicated title, and with one duplicated title both of
\* its first two rows.
C27_DuplicateTitleExamples ==
    (Ran(3) /\ "page_titles" \in DOMAIN data) =>
        \A i \in RecordsOf("duplicate_titles") :
            LET examples == AllIssues(issues)[i].examples
                n == Cardinality(DuplicatedTitles)
            IN  /\ Len(examples) = IF 2 * n < 5 THEN 2 * n ELSE 5
                /\ \E p \in DuplicateOrders :
                     \A k \in 1..Len(examples) :
                         examples[k]
                             = AddressesOf(p[(k + 1) \div 2])[2 - (k % 2)]
                /\ n = 1 =>
                       \A t \in DuplicatedTitles :
                           /\ AddressesOf(t)[1] \in Records(examples)
                           /\ AddressesOf(t)[2] \in Records(examples)

\* analyze_duplicate_titles has run on a table with three duplicated
\* titles: of the six addresses the record holds five
C27_Witness ==
    /\ Ran(3)
    /\ "page_titles" \in DOMAIN data
    /\ data["page_titles"] = SixTitleRows
    /\ \E i \in RecordsOf("duplicate_titles") :
         /\ AllIssues(issues)[i].count = 3
         /\ Len(AllIssues(issues)[i].examples) = 5

----------------------------------------------------------------------------
(* SEOAuditAutomation: run_analysis with its checks in any order *)

\* at most this many files in a directory of OrderDirs
MaxOrderFiles == 2

\* the directories an audit with its checks in any order is run on: one
\* file with any of its sample contents, or up to MaxOrderFiles files with
\* the first sample contents of each
OrderDirs ==
    {d \in ExportDirs :
       /\ d.listable
       /\ Cardinality(DOMAIN d.files) <= MaxOrderFiles
       /\ \/ Cardinality(DOMAIN d.files) <= 1
          \/ \A n \in DOMAIN d.files : d.files[n] = SampleFiles(n)[1]}

\* load_files has returned True; the ten checks of run_analysis are still to
\* run
InitAnyOrder ==
    /\ export_dir \in OrderDirs
    /\ \E o \in LoadOutcomes(export_dir) :
         self_files = o.files /\ data = o.data
    /\ issues = NoIssues
    /\ summary = <<>>
    /\ au_pc = "checks"
    /\ au_exc = "none"
    /\ pending = {Checks[i] : i \in 1..Len(Checks)}
    /\ runs = 0

\* one of the checks still to run is run; an exception it raises leaves
\* run_analysis
run_some_check ==
    /\ au_pc = "checks"
    /\ UNCHANGED notAudit
    /\ \E c \in pending :
         LET r == RunCheck(c, data, issues)
         IN  /\ issues' = r.issues
             /\ au_exc' = r.exc
             /\ pending' = pending \ {c}
             /\ au_pc' = IF r.exc # "none" THEN "raised"
                         ELSE IF pending = {c} THEN "sort"
                         ELSE "checks"
    /\ UNCHANGED <<export_dir, self_files, data, summary, runs>>

NextAnyOrder ==
    \/ run_some_check
    \/ sort_issues
    \/ calculate_summary

\* run_analysis with its checks in any order, nothing else running
InitSpecAnyOrder == InitAnyOrder /\ IdleAPI /\ IdleSF /\ IdleFlow

SpecAnyOrder == InitSpecAnyOrder /\ [][NextAnyOrder]_vars

----------------------------------------------------------------------------
(* SEOAuditAutomation: run_analysis called again on the same object *)

\* at most this many run_analysis calls on one object
MaxRuns == 2

\* run_analysis is called once more on the object: self.issues and
\* self.summary are as the call before left them
run_analysis_again ==
    /\ au_pc = "done"
    /\ runs < MaxRuns
    /\ UNCHANGED notAudit
    /\ au_pc' = Checks[1]
    /\ UNCHANGED <<export_dir, self_files, data, issues, summary, au_exc,
                   pending, runs>>

NextRerun ==
    \/ call_analyze_broken_links
    \/ call_analyze_redirect_chains
    \/ call_analyze_duplicate_titles
    \/ call_analyze_missing_meta_descriptions
    \/ call_analyze_missing_h1
    \/ call_analyze_slow_pages
    \/ call_analyze_title_length
    \/ call_analyze_description_length
    \/ call_analyze_missing_alt_text
    \/ call_analyze_multiple_h1
    \/ sort_issues
    \/ calculate_summary
    \/ run_analysis_again

\* run_analysis called up to MaxRuns times on one loaded table
InitSpecRerun == InitChecks /\ IdleAPI /\ IdleSF /\ IdleFlow

SpecRerun == InitSpecRerun /\ [][NextRerun]_vars

\* C23: whenever run_analysis has returned, the four counts of the summary
\* are the numbers of records in their buckets and total_issues is their
\* sum.
C23_SummaryMatchesBuckets ==
    au_pc = "done" =>
        /\ summary.critical_count = Len(issues.critical)
        /\ summary.high_count = Len(issues.high)
        /\ summary.medium_count = Len(issues.medium)
        /\ summary.low_count = Len(issues.low)
        /\ summary.total_issues
               = summary.critical_count + summary.high_count
                     + summary.medium_count + summary.low_count

\* the second run_analysis call on the object has returned with records in
\* the buckets
C23_Witness ==
    /\ au_pc = "done"
    /\ runs = 2
    /\ summary.total_issues >= 2

\* C28: however many times run_analysis has been called on the object, each
\* issue type appears at most once across the buckets.
C28_EachTypeAtMostOnce ==
    \A t \in DOMAIN ISSUE_SCORES : Cardinality(RecordsOf(t)) <= 1

----------------------------------------------------------------------------
(* The orchestrators: SEOWorkflow.run_workflow (workflow.py) and            *)
(* EndToEndSEOWorkflow.run_full_workflow (full_workflow.py)                 *)

\* at most this many files in the directory an orchestrator works on
MaxFlowFiles == 2

\* the directories the crawler leaves, or the caller hands over
FlowDirs ==
    {d \in ExportDirs : d.listable => Cardinality(DOMAIN d.files) <= MaxFlowFiles}

\* the steps of a run in the order the code takes them
StepOrder(w) ==
    IF w = "full"
    THEN <<"crawl", "load", "analyze", "report", "excel", "email">>
    ELSE <<"copy", "load", "analyze", "report", "excel", "email">>

\* the directory the audit writes its JSON, chart and HTML reports to, and
\* the reports_path of the SEOWorkflow object that writes the spreadsheet:
\* run_full_workflow builds that object with output_path = self.reports_dir,
\* and SEOWorkflow.__init__ appends "reports" to its output_path
AuditReportsDir(w) ==
    IF w = "full" THEN "base_dir/reports" ELSE "output_path/reports"
ExcelReportsDir(w) ==
    IF w = "full" THEN "base_dir/reports/reports" ELSE "output_path/reports"

\* the variant of AfterStep that goes on whatever the step returned
AfterStep_ignoring_failure(ok, next) == next

\* "if not <step>: return False": where the run goes after a step
AfterStep(ok, next) == IF ok THEN next ELSE "done"

\* the step is logged; it went well (result "ok"), returned False, or an
\* exception left it and, uncaught, the run
StepDone(step, result, exc, next) ==
    /\ steps' = Append(steps, step)
    /\ failed_step' = IF failed_step # "none" THEN failed_step
                      ELSE IF result = "ok" THEN "none" ELSE step
    /\ f_exc' = exc
    /\ f_pc' = IF result = "raised" THEN "done"
               ELSE AfterStep(result = "ok", next)
    /\ f_ret' = CASE result = "raised" -> "raised"
                  [] result = "False" -> "False"
                  [] OTHER -> f_ret

\* str.capitalize on the four category names: the sheet names
capitalize(category) ==
    [critical |-> "Critical", high |-> "High", medium |-> "Medium",
     low |-> "Low"][category]

\* the rows generate_excel_report makes of one issue: one per example
IssueRows_one_per_issue(issue) ==
    <<[Issue_Type |-> issue.title, URL |-> issue.examples,
       Impact |-> issue.impact, Effort |-> issue.effort,
       Priority_Score |-> issue.priority_score]>>

IssueRows(issue) ==
    [i \in 1..Len(issue.examples) |->
       [Issue_Type |-> issue.title, URL |-> issue.examples[i],
        Impact |-> issue.impact, Effort |-> issue.effort,
        Priority_Score |-> issue.priority_score]]

\* issue_data of one category: the rows of its issues, in bucket order
RECURSIVE issue_data(_)
issue_data(bucket) ==
    IF bucket = <<>> THEN <<>>
    ELSE IssueRows(Head(bucket)) \o issue_data(Tail(bucket))

\* the Summary sheet: seven Metric / Value rows read from the JSON summary
summary_data(s) ==
    <<[Metric |-> "Domain", Value |-> "domain"],
      [Metric |-> "Audit Date", Value |-> s.date],
      [Metric |-> "Total Issues", Value |-> s.total_issues],
      [Metric |-> "Critical Issues", Value |-> s.critical_count],
      [Metric |-> "High Priority Issues", Value |-> s.high_count],
      [Metric |-> "Medium Priority Issues", Value |-> s.medium_count],
      [Metric |-> "Low Priority Issues", Value |-> s.low_count]>>

\* the sheets generate_excel_report writes from the JSON report json_data:
\* the Summary sheet, and one sheet per category whose bucket is not empty
\* and that has at least one row
ExcelSheets(json_data) ==
    LET written == {c \in DOMAIN json_data.issues :
                      /\ json_data.issues[c] # <<>>
                      /\ issue_data(json_data.issues[c]) # <<>>}
        names == {"Summary"} \cup {capitalize(c) : c \in written}
    IN  [n \in names |->
           IF n = "Summary" THEN summary_data(json_data.summary)
           ELSE issue_data(json_data.issues[
                    CHOOSE c \in written : capitalize(c) = n])]

\* SEOWorkflow.generate_excel_report on an object whose report_files is rf:
\* it opens rf["json"], writes the spreadsheet under dir and files it as
\* rf["excel"]
generate_excel_report(rf, dir, files) ==
    IF "json" \notin DOMAIN rf
    THEN [exc |-> "KeyError", report_files |-> rf, disk |-> files]
    ELSE IF <<rf["json"], "json">> \notin files
    THEN [exc |-> "FileNotFoundError", report_files |-> rf, disk |-> files]
    ELSE [exc |-> "none",
          report_files |-> [k \in DOMAIN rf \cup {"excel"} |->
                              IF k = "excel" THEN dir ELSE rf[k]],
          disk |-> files \cup {<<dir, "excel">>}]

\* send_email_report once the message is built, on a server that takes the
\* mail (smtp_ok) or fails somewhere between connecting and quit: the
\* try / except around the SMTP calls turns every failure into False
send_email_report_raising(smtp_ok, n) ==
    IF smtp_ok THEN [ret |-> "True", exc |-> "none", sent |-> n + 1]
    ELSE [ret |-> "pending", exc |-> "SMTPException", sent |-> n]

send_email_report(smtp_ok, n) ==
    IF smtp_ok THEN [ret |-> "True", exc |-> "none", sent |-> n + 1]
    ELSE [ret |-> "False", exc |-> "none", sent |-> n]

\* "if not summary": the orchestrators take the audit for failed when the
\* summary read back from the JSON report is falsy, which for a dict means
\* it has no key
AuditFailed_when_no_issue(s) == s.total_issues = 0

AuditFailed(s) == DOMAIN s = {}

\* the value a run returns when it gets to its end
FinalValue(w) == IF w = "full" THEN "True" ELSE "report_files"

InitFlow ==
    /\ wf \in {"full", "basic"}
    /\ f_pc = StepOrder(wf)[1]
    /\ f_ret = "pending"
    /\ f_exc = "none"
    /\ steps = <<>>
    /\ failed_step = "none"
    /\ send_email \in BOOLEAN
    /\ email_config \in {"None", "config"}
    /\ report_files = <<>>
    /\ e2e_report_files = <<>>
    /\ disk = {}
    /\ sent = 0
    /\ wf_max_urls \in IF wf = "full" THEN {"None", "0", "500"} ELSE {"None"}
    /\ workbook = <<>>
    /\ email_ret = "pending"
    \* run_full_workflow starts on the empty exports directory that __init__
    \* created; run_workflow is handed an exports path
    /\ export_dir \in IF wf = "full"
                      THEN {[listable |-> TRUE, files |-> <<>>]}
                      ELSE FlowDirs
    /\ self_files = <<>>
    /\ data = <<>>
    /\ issues = NoIssues
    /\ summary = <<>>
    /\ au_pc = "idle"
    /\ au_exc = "none"
    /\ pending = {}
    /\ runs = 0

\* step 1 of run_full_workflow: run_crawl, which calls run_crawl_with_exports
\* with the ten audit tabs; the crawler is started or not, exits with some
\* code and leaves some files in the exports directory. run_crawl takes
\* max_urls (wf_max_urls) and hands run_crawl_with_exports the url, the
\* exports directory, the tabs and the configuration file only
flow_run_crawl ==
    /\ wf = "full" /\ f_pc = "crawl"
    /\ \E config \in {"None", "exists"}, started \in BOOLEAN, rc \in {0, 1},
          dir \in {d \in FlowDirs : d.listable} :
         LET args == [config_file |-> config, max_urls |-> "None",
                      export_tabs |-> "audit", url_list_exists |-> FALSE]
             ok == started /\ CrawlResult("run_crawl_with_exports", args, rc,
                                          DOMAIN dir.files)
         IN  /\ started \/ (rc = 0 /\ DOMAIN dir.files = {})
             /\ sf_op' = "run_crawl_with_exports"
             /\ sf_pc' = "done"
             /\ sf_args' = args
             /\ cmd' = BuildCmd("run_crawl_with_exports", args)
             /\ returncode' = IF started THEN rc ELSE -1
             /\ folder' = DOMAIN dir.files
             /\ process' = process
             /\ sf_ret' = BoolStr(ok)
             /\ export_dir' = dir
             /\ StepDone("crawl", IF ok THEN "ok" ELSE "False", "none", "load")
    /\ UNCHANGED <<apiVars, self_files, data, issues, summary, au_pc, au_exc,
                   pending, runs, wf, send_email, email_config, report_files,
                   e2e_report_files, disk, sent,
                   wf_max_urls, workbook, email_ret>>

\* step 1 of run_workflow: copy_exports copies the .csv files of the exports
\* path to the working directory; os.listdir raises when the path cannot be
\* listed
flow_copy_exports ==
    /\ wf = "basic" /\ f_pc = "copy"
    /\ IF export_dir.listable
       THEN /\ export_dir' =
                  [listable |-> TRUE,
                   files |-> [n \in {m \in DOMAIN export_dir.files :
                                       EndsWith(m, ".csv")} |->
                                export_dir.files[n]]]
            /\ StepDone("copy", "ok", "none", "load")
       ELSE /\ export_dir' = export_dir
            /\ StepDone("copy", "raised", "FileNotFoundError", "load")
    /\ UNCHANGED <<apiVars, sfVars, self_files, data, issues, summary, au_pc,
                   au_exc, pending, runs, wf, send_email, email_config,
                   report_files, e2e_report_files, disk, sent,
                   wf_max_urls, workbook, email_ret>>

\* run_audit / run_seo_audit: audit.load_files() on the exports directory,
\* which the operating system lets it list or not
flow_load_files ==
    /\ f_pc = "load"
    /\ \E readable \in BOOLEAN :
         \E o \in LoadOutcomes([export_dir EXCEPT
                                  !.listable = @ /\ readable]) :
           /\ self_files' = o.files
           /\ data' = o.data
           /\ StepDone("load", IF o.ok THEN "ok" ELSE "False", "none",
                       "analyze")
    /\ UNCHANGED <<apiVars, sfVars, export_dir, issues, summary, au_pc,
                   au_exc, pending, runs, wf, send_email, email_config,
                   report_files, e2e_report_files, disk, sent,
                   wf_max_urls, workbook, email_ret>>

\* run_audit / run_seo_audit: audit.run_analysis()
flow_run_analysis ==
    /\ f_pc = "analyze"
    /\ LET r == run_analysis(data, issues, summary)
       IN  /\ issues' = r.issues
           /\ summary' = r.summary
           /\ runs' = IF r.exc = "none" THEN runs + 1 ELSE runs
           /\ StepDone("analyze", IF r.exc = "none" THEN "ok" ELSE "raised",
                       r.exc, "report")
    /\ UNCHANGED <<apiVars, sfVars, export_dir, self_files, data, au_pc,
                   au_exc, pending, wf, send_email, email_config,
                   report_files, e2e_report_files, disk, sent,
                   wf_max_urls, workbook, email_ret>>

\* run_audit / run_seo_audit: the JSON, chart and HTML reports are written,
\* filed in report_files of the object that ran the audit, and the summary
\* read back from the JSON report is returned ("if not summary" ends the run)
flow_generate_reports ==
    /\ f_pc = "report"
    /\ LET dir == AuditReportsDir(wf)
           filed == [k \in {"json", "charts", "html"} |-> dir]
       IN  /\ disk' = disk \cup {<<dir, "json">>, <<dir, "charts">>,
                                 <<dir, "html">>}
           /\ IF wf = "full"
              THEN e2e_report_files' = filed /\ report_files' = report_files
              ELSE report_files' = filed
                   /\ e2e_report_files' = e2e_report_files
    /\ StepDone("report", IF AuditFailed(summary) THEN "False" ELSE "ok",
                "none", "excel")
    /\ UNCHANGED <<apiVars, sfVars, auditVars, wf, send_email, email_config,
                   sent,
                   wf_max_urls, workbook, email_ret>>

\* step 3: generate_excel_report, in run_full_workflow on an SEOWorkflow
\* object made for it (report_files = {}), in run_workflow on self
flow_generate_excel_report ==
    /\ f_pc = "excel"
    /\ LET rf == IF wf = "full" THEN <<>> ELSE report_files
           r == generate_excel_report(rf, ExcelReportsDir(wf), disk)
       IN  /\ report_files' = r.report_files
           /\ disk' = r.disk
           \* the JSON report read back is what generate_report wrote
           /\ workbook' = IF r.exc = "none"
                          THEN ExcelSheets([summary |-> summary,
                                            issues |-> issues])
                          ELSE workbook
           /\ StepDone("excel", IF r.exc = "none" THEN "ok" ELSE "raised",
                       r.exc, "email")
    /\ UNCHANGED <<apiVars, sfVars, auditVars, wf, send_email, email_config,
                   e2e_report_files, sent,
                   wf_max_urls, email_ret>>

\* step 4 when send_email and email_config are both set: send_email_report
\* builds the mail and hands it to the SMTP server; an SMTP error is logged
\* and the run returns as if the mail had gone out
flow_send_email_report ==
    /\ f_pc = "email"
    /\ send_email /\ email_config # "None"
    /\ \E smtp_ok \in BOOLEAN :
          LET r == send_email_report(smtp_ok, sent)
          IN  /\ sent' = r.sent
              /\ email_ret' = r.ret
              /\ f_exc' = r.exc
              /\ f_ret' = IF r.exc = "none" THEN FinalValue(wf) ELSE "raised"
              /\ failed_step' = IF failed_step = "none" /\ r.exc # "none"
                                THEN "email" ELSE failed_step
    /\ steps' = Append(steps, "email")
    /\ f_pc' = "done"
    /\ UNCHANGED <<apiVars, sfVars, auditVars, wf, send_email, email_config,
                   report_files, e2e_report_files, disk, wf_max_urls,
                   workbook>>

\* step 4 otherwise: no mail, the run returns
flow_return ==
    /\ f_pc = "email"
    /\ ~(send_email /\ email_config # "None")
    /\ f_pc' = "done"
    /\ f_ret' = FinalValue(wf)
    /\ UNCHANGED <<apiVars, sfVars, auditVars, wf, f_exc, steps, failed_step,
                   send_email, email_config, report_files, e2e_report_files,
                   disk, sent,
                   wf_max_urls, workbook, email_ret>>

NextFlow ==
    \/ flow_run_crawl
    \/ flow_copy_exports
    \/ flow_load_files
    \/ flow_run_analysis
    \/ flow_generate_reports
    \/ flow_generate_excel_report
    \/ flow_send_email_report
    \/ flow_return

\* one run of one orchestrator, nothing else running
InitSpecFlow == InitFlow /\ IdleAPI /\ IdleSF

SpecFlow == InitSpecFlow /\ [][NextFlow]_vars

\* seq is the beginning of whole
IsPrefix(seq, whole) ==
    Len(seq) <= Len(whole) /\ \A i \in 1..Len(seq) : seq[i] = whole[i]

\* C1: in both orchestrators the steps taken are, in this order, crawl or
\* copy, load, analyze, report (the audit reports, then the spreadsheet) and
\* email, each at most once and none before its predecessor; and once a step
\* has failed it stays the last step taken: after a failed crawl or a failed
\* load no analysis, report or email follows.
C1_SequentialAbortOnFailure ==
    wf # "none" =>
        /\ IsPrefix(steps, StepOrder(wf))
        /\ failed_step # "none" =>
               /\ steps # <<>>
               /\ steps[Len(steps)] = failed_step
               /\ f_pc = "done"
               /\ f_ret \in {"False", "raised"}
               /\ sent = 0

\* run_full_workflow has ended after a crawl that went well and a load that
\* failed
C1_Witness ==
    /\ wf = "full"
    /\ f_pc = "done"
    /\ failed_step = "load"
    /\ steps = <<"crawl", "load">>
    /\ f_ret = "False"

\* the kinds of report files present in a directory
Present(dir) == {k \in {"json", "charts", "html", "excel"} : <<dir, k>> \in disk}

\* C2: when run_full_workflow has ended after a crawl step and an audit step
\* that both went well, it has returned True and the JSON, HTML, chart and
\* spreadsheet files are all in the run's reports directory.
C2_FullRunWritesSpreadsheet ==
    (/\ wf = "full"
     /\ f_pc = "done"
     /\ IsPrefix(<<"crawl", "load", "analyze", "report">>, steps)
     /\ failed_step \notin {"crawl", "load", "analyze", "report"})
    => (/\ f_ret = "True"
        /\ Present(AuditReportsDir("full"))
               = {"json", "charts", "html", "excel"})

\* ---------------------------------------------------------------------------
\* C22: the spreadsheet generate_excel_report writes has, for each bucket that
\* is not empty, a sheet named after it with exactly one row per (issue,
\* example) pair of the bucket, so as many rows as its issues have examples
\* in total, and no sheet for an empty bucket.
ExamplePairs(bucket) ==
    UNION {{<<k, j>> : j \in 1..Len(bucket[k].examples)} :
             k \in 1..Len(bucket)}

C22_OneRowPerExample ==
    DOMAIN workbook # {} =>
        \A c \in DOMAIN issues :
            IF issues[c] = <<>>
            THEN capitalize(c) \notin DOMAIN workbook
            ELSE /\ capitalize(c) \in DOMAIN workbook
                 /\ LET rows == workbook[capitalize(c)]
                        pairs == ExamplePairs(issues[c])
                    IN  /\ Len(rows) = Cardinality(pairs)
                        /\ \A p \in pairs :
                             Cardinality(
                               {i \in 1..Len(rows) :
                                  /\ rows[i].Issue_Type = issues[c][p[1]].title
                                  /\ rows[i].URL
                                       = issues[c][p[1]].examples[p[2]]})
                             = Cardinality(
                                 {q \in pairs :
                                    /\ issues[c][q[1]].title
                                         = issues[c][p[1]].title
                                    /\ issues[c][q[1]].examples[q[2]]
                                         = issues[c][p[1]].examples[p[2]]})

\* a spreadsheet with a sheet of at least three rows made of fewer issues,
\* next to a bucket that got no sheet
C22_Witness ==
    /\ DOMAIN workbook # {}
    /\ \E c \in DOMAIN issues :
         /\ capitalize(c) \in DOMAIN workbook
         /\ Len(workbook[capitalize(c)]) >= 3
         /\ \E k \in 1..Len(issues[c]) : Len(issues[c][k].examples) >= 3
    /\ \E c \in DOMAIN issues :
         issues[c] = <<>> /\ capitalize(c) \notin DOMAIN workbook

\* ---------------------------------------------------------------------------
\* C24: when the SMTP server fails, send_email_report returns False and
\* raises nothing, the report files stay as they were, and run_workflow
\* comes to its end with the value it returns when the mail went out.
C24_SmtpFailureIsFalse ==
    [][(f_pc = "email" /\ steps' = Append(steps, "email") /\ sent' = sent) =>
          /\ email_ret' = "False"
          /\ f_exc' = "none"
          /\ f_pc' = "done"
          /\ f_ret' = FinalValue(wf)
          /\ UNCHANGED <<report_files, e2e_report_files, disk, workbook>>]_vars

\* a basic run whose mail the server refused, at its end with all four
\* report files on disk
C24_Witness ==
    /\ wf = "basic" /\ f_pc = "done"
    /\ steps[Len(steps)] = "email"
    /\ email_ret = "False" /\ sent = 0
    /\ f_ret = "report_files"
    /\ DOMAIN report_files = {"json", "charts", "html", "excel"}
    /\ \A k \in DOMAIN report_files : <<report_files[k], k>> \in disk

\* ---------------------------------------------------------------------------
\* C26: when run_full_workflow is given a max_urls value, the command the
\* crawl step starts the crawler with carries the flag --bulk-max-urls
\* followed by that value.
C26_MaxUrlsInCommand ==
    (/\ wf = "full"
     /\ steps # <<>> /\ steps[1] = "crawl"
     /\ returncode # -1
     /\ wf_max_urls \notin {"None", "0"})
    => \E i \in 1..(Len(cmd) - 1) :
           cmd[i] = "--bulk-max-urls" /\ cmd[i + 1] = wf_max_urls

====
